---- MODULE Spec2Model ----
(***************************************************************************)
(* TollGate installer: the SSH connection manager (SshConnector), the      *)
(* network discoverer (NetworkScanner) and the upgrade orchestrator        *)
(* (InstallerEngine), modelled as one state machine.                       *)
(*                                                                         *)
(* Every asynchronous function of the program is a frame on a call stack;  *)
(* one action is one run of the event loop: the synchronous code between   *)
(* two awaits.  The devices on the network are the environment.            *)
(***************************************************************************)
EXTENDS Integers, Sequences, FiniteSets, TLC

VARIABLES
    connections,   \* per SshConnector instance: the Map address -> client id
    clients,       \* the SSH clients on which end() was not called yet: id -> record
    dev,           \* the devices on the network: address -> record
    stk,           \* per thread of control: the stack of suspended async calls
    ret,           \* per thread: the value the last returning call settled with
    cfg,           \* the scanner's configuration and build; in SpecFeed the
                   \* state and closure of the release provider
    scanLog,       \* history of the running scan: probes, rejections
    pollLog,       \* history of the latest pollForAvailability call
    instLog        \* history of the latest install call

vars == <<connections, clients, dev, stk, ret, cfg, scanLog, pollLog, instLog>>

-----------------------------------------------------------------------------
(* Bounds of the model *)

\* largest maxAttempts a caller other than install passes to pollForAvailability
MaxPollArg == 2

-----------------------------------------------------------------------------
(* Maps: the JavaScript Map of the connector, and the set of open clients *)

MapGet(m, x) == IF x \in DOMAIN m THEN m[x] ELSE 0

MapDel(m, x) == [y \in DOMAIN m \ {x} |-> m[y]]

MapSet(m, x, v) == [y \in DOMAIN m \cup {x} |-> IF y = x THEN v ELSE m[y]]

EmptyMap == [y \in {} |-> 0]

-----------------------------------------------------------------------------
(* The three SshConnector instances of the application *)

\* main.ts:86 (IPC handlers), network-scanner.ts:14, installer-engine.ts:24
Connectors == {"ipc", "scanner", "installer"}

Threads == {1, 2}

\* the connector state the methods below read and write
CState == [conns |-> connections, cls |-> clients]

\* a suspended async call
Frame(fn, pc, k, ip, arg, c, n, max) ==
    [fn |-> fn, pc |-> pc, k |-> k, ip |-> ip, arg |-> arg, c |-> c, n |-> n, max |-> max]

\* the value a call settles with: kind is "return" or "throw"
Val(fn, kind, ok, s) ==
    [fn |-> fn, kind |-> kind, ok |-> ok, s |-> s, step |-> "", progress |-> 0]

NoVal == Val("", "none", FALSE, "")

Top(t) == stk[t][Len(stk[t])]

Pop(t) == SubSeq(stk[t], 1, Len(stk[t]) - 1)

\* the caller's stack with its top frame moved to pc
At(t, pc) == [stk[t] EXCEPT ![Len(stk[t])].pc = pc]

Running(t, fn, pc) == Len(stk[t]) > 0 /\ Top(t).fn = fn /\ Top(t).pc = pc

Idle == \A t \in Threads : stk[t] = <<>>

\* the top frame returns or throws v to its caller
Settle(t, v) ==
    /\ stk' = [stk EXCEPT ![t] = Pop(t)]
    /\ ret' = [ret EXCEPT ![t] = v]

\* a continuation is ready to run: its callee has settled (a microtask is queued)
Resumed(t) == Len(stk[t]) > 0 /\ ret[t].kind # "none"

\* I/O events are delivered only when no microtask is queued
Quiet == \A t \in Threads : ~Resumed(t)

-----------------------------------------------------------------------------
(* ssh2 clients *)

\* client.end(): the client leaves the set of open clients (idempotent)
end(cls, c) == MapDel(cls, c)

UsedIds(S) ==
    DOMAIN S.cls
      \cup UNION {{S.conns[k][a] : a \in DOMAIN S.conns[k]} : k \in Connectors}
      \cup UNION {{stk[t][i].c : i \in 1..Len(stk[t])} : t \in Threads}

\* new Client(): an identity no live reference uses
NewClientId(S) ==
    CHOOSE n \in 1..(Cardinality(UsedIds(S)) + 1) :
        /\ n \notin UsedIds(S)
        /\ \A m \in 1..(n - 1) : m \in UsedIds(S)

-----------------------------------------------------------------------------
(* SshConnector, the synchronous parts *)

\* mutant: the Map entry is dropped but the client is left open
closeConnection_noEnd(S, k, ip) ==
    [S EXCEPT !.conns[k] = MapDel(@, ip)]

closeConnection(S, k, ip) ==
    LET client == MapGet(S.conns[k], ip) IN
    IF client # 0
    THEN [conns |-> [S.conns EXCEPT ![k] = MapDel(@, ip)],
          cls   |-> end(S.cls, client)]
    ELSE S

closeAllConnections(S, k) ==
    [conns |-> [S.conns EXCEPT ![k] = EmptyMap],
     cls   |-> [c \in DOMAIN S.cls \ {S.conns[k][a] : a \in DOMAIN S.conns[k]} |-> S.cls[c]]]

\* connect() up to its first await: close the old session, create a client,
\* start the handshake (connectClient)
connectEnter(t, s, S, k, ip, pw) ==
    LET S1 == closeConnection(S, k, ip)
        id == NewClientId(S1)
        \* history: 1 when the call found an open session for ip and replaced it
        replaced == IF MapGet(S.conns[k], ip) \in DOMAIN S.cls THEN 1 ELSE 0
    IN  /\ connections' = S1.conns
        /\ clients' = MapSet(S1.cls, id, [k |-> k, ip |-> ip, st |-> "pending", link |-> "up"])
        /\ stk' = [stk EXCEPT ![t] =
                     Append(s, Frame("connect", "connecting", k, ip, pw, id, replaced, 0))]

-----------------------------------------------------------------------------
(* The devices: what the program's network calls meet *)

\* a device: reachable or not, its root password, what `ubus call system board`
\* prints, its firmware, the image in /tmp, a reboot scheduled by sysupgrade
Device(up, pw, board, fw, file, pending) ==
    [up |-> up, pw |-> pw, board |-> board, fw |-> fw, file |-> file, pending |-> pending]

Closed22(ip) == IF ip \in DOMAIN dev THEN ~dev[ip].up ELSE TRUE

\* the SSH server completes the handshake (ssh2 emits 'ready')
Accepts(ip, pw) == ~Closed22(ip) /\ dev[ip].pw = pw

\* the commands the program sends
CmdBoard == "ubus call system board"
CmdMkdir == "mkdir -p /tmp"
CmdLs == "ls -l /tmp/firmware-update.bin"
CmdSysupgrade == "sysupgrade -n /tmp/firmware-update.bin"
CmdVersion == "cat /etc/tollgate-version 2>/dev/null || echo \"Not TollGate OS\""

\* standard output of a command that ran to its end on device d
Stdout(cmd, d) ==
    CASE cmd = CmdBoard ->
           (CASE d.board = "openwrt"  -> "{board_name:X,release:{distribution:OpenWrt}}"
              [] d.board = "nodistro" -> "{board_name:X}"
              [] d.board = "noboard"  -> "{board_name:'',release:{distribution:OpenWrt}}"
              [] OTHER                -> "")
      [] cmd = CmdLs -> IF d.file = "none" THEN "" ELSE "-rw-r--r-- firmware-update.bin"
      [] cmd = CmdVersion -> IF d.fw = "tollgate" THEN "v1.0" ELSE "Not TollGate OS"
      [] OTHER -> ""

\* JSON.parse of the board query's output ("throws" when it is no JSON), and
\* the fields install reads from the parsed object
JSONparse(out) ==
    CASE out = "{board_name:X,release:{distribution:OpenWrt}}" ->
            [throws |-> FALSE, board_name |-> "X", distribution |-> "OpenWrt"]
      [] out = "{board_name:X}" ->
            [throws |-> FALSE, board_name |-> "X", distribution |-> "undefined"]
      [] out = "{board_name:'',release:{distribution:OpenWrt}}" ->
            [throws |-> FALSE, board_name |-> "", distribution |-> "OpenWrt"]
      [] OTHER -> [throws |-> TRUE, board_name |-> "", distribution |-> "undefined"]

\* the device goes off the network: its sessions are dead, a scheduled flash happens
DevDown(ip) ==
    /\ Quiet
    /\ ip \in DOMAIN dev /\ dev[ip].up
    /\ \E flashed \in BOOLEAN :
         /\ flashed => dev[ip].pending /\ dev[ip].file = "good"
         /\ dev' = [dev EXCEPT ![ip].up = FALSE, ![ip].pending = FALSE,
                               ![ip].file = "none",
                               ![ip].fw = IF flashed THEN "tollgate" ELSE @,
                               ![ip].pw = IF flashed THEN "" ELSE @]
    /\ clients' = [c \in DOMAIN clients |->
                     IF clients[c].ip = ip /\ clients[c].st = "ready"
                     THEN [clients[c] EXCEPT !.link = "dead"] ELSE clients[c]]
    \* history: the device went down after install sent the firmware-apply command
    /\ instLog' = [instLog EXCEPT !.wentDown =
                     @ \/ \E i \in 1..Len(instLog.cmds) : instLog.cmds[i] = CmdSysupgrade]
    /\ UNCHANGED <<connections, stk, ret, cfg, scanLog, pollLog>>

DevUp(ip) ==
    /\ Quiet
    /\ ip \in DOMAIN dev /\ ~dev[ip].up
    /\ dev' = [dev EXCEPT ![ip].up = TRUE]
    /\ UNCHANGED <<connections, clients, stk, ret, cfg, scanLog, pollLog, instLog>>

\* the image in /tmp is gone while the device stays up (/tmp is a RAM disk the
\* device may reclaim): `ls -l` of it then prints nothing on standard output
FileLost(ip) ==
    /\ Quiet
    /\ ip \in DOMAIN dev /\ dev[ip].up /\ dev[ip].file # "none" /\ ~dev[ip].pending
    /\ dev' = [dev EXCEPT ![ip].file = "none"]
    /\ UNCHANGED <<connections, clients, stk, ret, cfg, scanLog, pollLog, instLog>>

\* ssh2 emits 'close' on a dead session: the handler of connectClient (or of
\* quickConnectAttempt) runs cleanupClient, which ends the client; the Map is not touched
onClose(c) ==
    /\ Quiet
    /\ c \in DOMAIN clients /\ clients[c].link = "dead"
    /\ clients' = end(clients, c)
    /\ UNCHANGED <<connections, dev, stk, ret, cfg, scanLog, pollLog, instLog>>

-----------------------------------------------------------------------------
(* SshConnector.connect / connectClient *)

\* the reasons connectClient rejects with: auth or network error event, the
\* 10 s timer, an unexpected 'close', a throw of client.connect itself
ConnectErrors == {"error", "timed out", "closed unexpectedly", "immediate"}

\* mutant: a failed connect leaves its client registered
connectFailed_registered(S, f) ==
    [S EXCEPT !.conns[f.k] = MapSet(@, f.ip, f.c)]

\* cleanupClient on the failure paths of connectClient: the client is ended
connectFailed(S, f) ==
    [S EXCEPT !.cls = end(@, f.c)]

\* 'ready': connectClient resolves, connect stores the client and returns success
connect_ready(t) ==
    /\ Quiet /\ Running(t, "connect", "connecting")
    /\ LET f == Top(t) IN
        /\ Accepts(f.ip, f.arg)
        /\ clients' = [clients EXCEPT ![f.c].st = "ready"]
        /\ connections' = [connections EXCEPT ![f.k] = MapSet(@, f.ip, f.c)]
        /\ Settle(t, Val("connect", "return", TRUE, ""))
    /\ UNCHANGED <<dev, cfg, scanLog, pollLog, instLog>>

\* connectClient rejects; connect catches and returns {success: false, error}
connect_fail(t) ==
    /\ Quiet /\ Running(t, "connect", "connecting")
    /\ \E reason \in ConnectErrors :
        LET S1 == connectFailed(CState, Top(t)) IN
        /\ connections' = S1.conns
        /\ clients' = S1.cls
        /\ Settle(t, Val("connect", "return", FALSE, reason))
    /\ UNCHANGED <<dev, cfg, scanLog, pollLog, instLog>>

-----------------------------------------------------------------------------
(* SshConnector.executeCommand *)

\* client.exec is called at once; the promise settles on the stream's events
executeCommandEnter(t, s, S, k, ip, client, cmd) ==
    /\ connections' = S.conns
    /\ clients' = S.cls
    /\ stk' = [stk EXCEPT ![t] = Append(s, Frame("executeCommand", "exec", k, ip, cmd, client, 0, 0))]

\* the session the command runs on is open and its device is there
Live(c) == c \in DOMAIN clients /\ clients[c].st = "ready" /\ clients[c].link = "up"

\* the stream closes: the promise resolves with the standard output, whatever
\* the exit status and whatever went to standard error
executeCommand_close(t) ==
    /\ Quiet /\ Running(t, "executeCommand", "exec")
    /\ LET f == Top(t) IN
        /\ f.c \in DOMAIN clients
        /\ dev' = IF Live(f.c) /\ f.arg = CmdSysupgrade /\ dev[f.ip].file = "good"
                  THEN [dev EXCEPT ![f.ip].pending = TRUE] ELSE dev
        /\ Settle(t, Val("executeCommand", "return", TRUE,
                         IF Live(f.c) THEN Stdout(f.arg, dev[f.ip]) ELSE ""))
    /\ UNCHANGED <<connections, clients, cfg, scanLog, pollLog, instLog>>

\* exec fails: not connected, channel refused, or the connection is lost while
\* the command runs (the firmware-apply command takes the SSH server down)
executeCommand_error(t) ==
    /\ Quiet /\ Running(t, "executeCommand", "exec")
    /\ LET f == Top(t) IN
        \E reason \in {"Not connected", "exec failed", "connection closed"} :
          /\ (reason = "Not connected") = (f.c \notin DOMAIN clients)
          /\ reason = "connection closed" =>
                clients[f.c].link = "dead" \/ f.arg = CmdSysupgrade
          /\ dev' = IF Live(f.c) /\ reason = "connection closed" /\ dev[f.ip].file = "good"
                    THEN [dev EXCEPT ![f.ip].pending = TRUE] ELSE dev
          /\ Settle(t, Val("executeCommand", "throw", FALSE, reason))
    /\ UNCHANGED <<connections, clients, cfg, scanLog, pollLog, instLog>>

-----------------------------------------------------------------------------
(* SshConnector.getRouterInfo *)

getRouterInfoEnter(t, s, S, k, ip) ==
    LET client == MapGet(S.conns[k], ip) IN
    IF client = 0
    THEN connectEnter(t, Append(s, Frame("getRouterInfo", "reconnect", k, ip, "", 0, 0, 0)),
                      S, k, ip, "")
    ELSE executeCommandEnter(t, Append(s, Frame("getRouterInfo", "ubus", k, ip, "", client, 0, 0)),
                             S, k, ip, client, CmdBoard)

\* after `await this.connect(ip, '')`
getRouterInfo_reconnected(t) ==
    /\ Running(t, "getRouterInfo", "reconnect") /\ Resumed(t)
    /\ LET f == Top(t)
           client == MapGet(connections[f.k], f.ip)
       IN IF ~ret[t].ok \/ client = 0
          THEN /\ Settle(t, Val("getRouterInfo", "return", FALSE, "undefined"))
               /\ UNCHANGED <<connections, clients>>
          ELSE /\ executeCommandEnter(t, At(t, "ubus"), CState, f.k, f.ip, client, CmdBoard)
               /\ ret' = [ret EXCEPT ![t] = NoVal]
    /\ UNCHANGED <<dev, cfg, scanLog, pollLog, instLog>>

\* after `await this.executeCommand(client, "ubus call system board")`:
\* the parsed object, or undefined when the command or JSON.parse threw
getRouterInfo_parsed(t) ==
    /\ Running(t, "getRouterInfo", "ubus") /\ Resumed(t)
    /\ IF ret[t].kind = "throw" \/ JSONparse(ret[t].s).throws
       THEN Settle(t, Val("getRouterInfo", "return", FALSE, "undefined"))
       ELSE Settle(t, Val("getRouterInfo", "return", TRUE, ret[t].s))
    /\ UNCHANGED <<connections, clients, dev, cfg, scanLog, pollLog, instLog>>

-----------------------------------------------------------------------------
(* SshConnector.executeRemoteCommand *)

executeRemoteCommandEnter(t, s, S, k, ip, cmd) ==
    LET client == MapGet(S.conns[k], ip) IN
    IF client = 0
    THEN connectEnter(t, Append(s, Frame("executeRemoteCommand", "reconnect", k, ip, cmd, 0, 0, 0)),
                      S, k, ip, "")
    ELSE executeCommandEnter(t, Append(s, Frame("executeRemoteCommand", "exec", k, ip, cmd, client, 0, 0)),
                             S, k, ip, client, cmd)

\* mutant: the result of the reconnection is not looked at
reconnectFailed_ignored(reconnectResult, client) == FALSE

\* `if (!reconnectResult.success)` and `if (!client)`
reconnectFailed(reconnectResult, client) == ~reconnectResult.ok \/ client = 0

executeRemoteCommand_reconnected(t) ==
    /\ Running(t, "executeRemoteCommand", "reconnect") /\ Resumed(t)
    /\ LET f == Top(t)
           client == MapGet(connections[f.k], f.ip)
       IN IF reconnectFailed(ret[t], client)
          THEN /\ Settle(t, Val("executeRemoteCommand", "throw", FALSE, "Failed to reconnect"))
               /\ UNCHANGED <<connections, clients>>
          ELSE /\ executeCommandEnter(t, At(t, "exec"), CState, f.k, f.ip, client, f.arg)
               /\ ret' = [ret EXCEPT ![t] = NoVal]
    /\ UNCHANGED <<dev, cfg, scanLog, pollLog, instLog>>

\* `return this.executeCommand(client, command)`: the result passes through
executeRemoteCommand_done(t) ==
    /\ Running(t, "executeRemoteCommand", "exec") /\ Resumed(t)
    /\ Settle(t, [ret[t] EXCEPT !.fn = "executeRemoteCommand"])
    /\ UNCHANGED <<connections, clients, dev, cfg, scanLog, pollLog, instLog>>

-----------------------------------------------------------------------------
(* SshConnector.transferFile *)

transferFileEnter(t, s, S, k, ip, pw) ==
    LET client == MapGet(S.conns[k], ip) IN
    IF client = 0
    THEN connectEnter(t, Append(s, Frame("transferFile", "reconnect", k, ip, pw, 0, 0, 0)),
                      S, k, ip, pw)
    ELSE executeCommandEnter(t, Append(s, Frame("transferFile", "mkdir", k, ip, pw, client, 0, 0)),
                             S, k, ip, client, CmdMkdir)

transferFile_reconnected(t) ==
    /\ Running(t, "transferFile", "reconnect") /\ Resumed(t)
    /\ LET f == Top(t)
           client == MapGet(connections[f.k], f.ip)
       IN IF ~ret[t].ok \/ client = 0
          THEN /\ Settle(t, Val("transferFile", "return", FALSE, "false"))
               /\ UNCHANGED <<connections, clients>>
          ELSE /\ executeCommandEnter(t, At(t, "mkdir"), CState, f.k, f.ip, client, CmdMkdir)
               /\ ret' = [ret EXCEPT ![t] = NoVal]
    /\ UNCHANGED <<dev, cfg, scanLog, pollLog, instLog>>

\* after the mkdir, thrown or not ("Continue anyway"): run scp and wait for it
transferFile_mkdirDone(t) ==
    /\ Running(t, "transferFile", "mkdir") /\ Resumed(t)
    /\ stk' = [stk EXCEPT ![t] = At(t, "scp")]
    /\ ret' = [ret EXCEPT ![t] = NoVal]
    /\ UNCHANGED <<connections, clients, dev, cfg, scanLog, pollLog, instLog>>

\* what scp may write on standard error when it exits 0
ScpStderr ==
    {"", "Warning: Permanently added", "lost connection",
     "Warning: Permanently added\nlost connection"}

\* stderr.includes('Warning') on those texts
includesWarning(stderr) ==
    stderr \in {"Warning: Permanently added", "Warning: Permanently added\nlost connection"}

\* mutant: standard error is not looked at
scpRejected_never(stderr) == FALSE

\* `if (stderr && !stderr.includes('Warning'))`
scpRejected(stderr) == stderr # "" /\ ~includesWarning(stderr)

\* scp exits 0: the file is on the device; stderr decides the result
transferFile_scpExit(t) ==
    /\ Quiet /\ Running(t, "transferFile", "scp")
    /\ LET f == Top(t) IN
        /\ Accepts(f.ip, f.arg)
        /\ \E stderr \in ScpStderr, image \in {"good", "bad"} :
            /\ dev' = [dev EXCEPT ![f.ip].file = image]
            /\ Settle(t, Val("transferFile", "return", ~scpRejected(stderr), stderr))
    /\ UNCHANGED <<connections, clients, cfg, scanLog, pollLog, instLog>>

\* scp exits with an error status: execPromise rejects, transferFile returns false
transferFile_scpError(t) ==
    /\ Quiet /\ Running(t, "transferFile", "scp")
    /\ Settle(t, Val("transferFile", "return", FALSE, "scp failed"))
    /\ UNCHANGED <<connections, clients, dev, cfg, scanLog, pollLog, instLog>>

-----------------------------------------------------------------------------
(* SshConnector.quickConnectAttempt and pollForAvailability *)

\* quickConnectAttempt up to its await: close the session registered for ip,
\* create a client, start the handshake
quickConnectAttemptEnter(t, s, S, k, ip) ==
    LET S1 == closeConnection(S, k, ip)
        id == NewClientId(S1)
        \* history: the client that was registered for ip when the attempt began
        before == MapGet(S.conns[k], ip)
    IN  /\ connections' = S1.conns
        /\ clients' = MapSet(S1.cls, id, [k |-> k, ip |-> ip, st |-> "pending", link |-> "up"])
        /\ stk' = [stk EXCEPT ![t] =
                     Append(s, Frame("quickConnectAttempt", "connecting", k, ip, "", id, before, 0))]

quickConnectAttempt_ready(t) ==
    /\ Quiet /\ Running(t, "quickConnectAttempt", "connecting")
    /\ LET f == Top(t) IN
        /\ Accepts(f.ip, "")
        /\ clients' = [clients EXCEPT ![f.c].st = "ready"]
        /\ connections' = [connections EXCEPT ![f.k] = MapSet(@, f.ip, f.c)]
        /\ Settle(t, Val("quickConnectAttempt", "return", TRUE, ""))
    /\ UNCHANGED <<dev, cfg, scanLog, pollLog, instLog>>

\* mutant: the failed attempt leaves its client open
quickConnectAttempt_fail_leak(t) ==
    /\ Quiet /\ Running(t, "quickConnectAttempt", "connecting")
    /\ \E reason \in {"Quick connection timed out", "Connection closed", "error"} :
        /\ Settle(t, Val("quickConnectAttempt", "return", FALSE, reason))
    /\ UNCHANGED <<connections, clients, dev, cfg, scanLog, pollLog, instLog>>

\* the timeout, 'error' or 'close': cleanupClient ends the client, the promise
\* rejects and the catch returns {success: false}
quickConnectAttempt_fail(t) ==
    /\ Quiet /\ Running(t, "quickConnectAttempt", "connecting")
    /\ \E reason \in {"Quick connection timed out", "Connection closed", "error"} :
        /\ clients' = end(clients, Top(t).c)
        /\ Settle(t, Val("quickConnectAttempt", "return", FALSE, reason))
    /\ UNCHANGED <<connections, dev, cfg, scanLog, pollLog, instLog>>

\* the history of one pollForAvailability call
PollLog(max, outcomes, sleeps, result) ==
    [max |-> max, outcomes |-> outcomes, sleeps |-> sleeps, result |-> result]

\* mutant: the loop stops one attempt short
pollAgain_short(attempt, maxAttempts) == attempt + 1 < maxAttempts

\* the loop condition `attempt <= maxAttempts` for the attempt after `attempt`
pollAgain(attempt, maxAttempts) == attempt + 1 <= maxAttempts

\* mutant: sleeps after the last attempt too
pollSleeps_always(attempt, maxAttempts) == attempt <= maxAttempts

\* `if (attempt < maxAttempts && shouldRetry)`
pollSleeps(attempt, maxAttempts) == attempt < maxAttempts

\* closes the session, then enters the loop: the first attempt, or none at all
pollForAvailabilityEnter(t, s, S, k, ip, max) ==
    LET S1 == closeConnection(S, k, ip) IN
    /\ pollLog' = PollLog(max, <<>>, 0, "running")
    /\ IF pollAgain(0, max)
       THEN quickConnectAttemptEnter(t, Append(s, Frame("pollForAvailability", "attempt", k, ip, "", 0, 1, max)),
                                     S1, k, ip)
       ELSE /\ connections' = S1.conns
            /\ clients' = S1.cls
            /\ stk' = [stk EXCEPT ![t] =
                         Append(s, Frame("pollForAvailability", "exhausted", k, ip, "", 0, 1, max))]

\* `attempt++` and the loop test: the next attempt, or `return false`
pollNext(t, log) ==
    LET f == Top(t) IN
    IF pollAgain(f.n, f.max)
    THEN /\ quickConnectAttemptEnter(t, [At(t, "attempt") EXCEPT ![Len(stk[t])].n = f.n + 1],
                                     CState, f.k, f.ip)
         /\ ret' = [ret EXCEPT ![t] = NoVal]
         /\ pollLog' = log
    ELSE /\ pollLog' = [log EXCEPT !.result = "false"]
         /\ Settle(t, Val("pollForAvailability", "return", FALSE, "false"))
         /\ UNCHANGED <<connections, clients>>

\* after `await this.quickConnectAttempt(ip, 1000)`
pollForAvailability_attempted(t) ==
    /\ Running(t, "pollForAvailability", "attempt") /\ Resumed(t)
    /\ LET f == Top(t)
           log == [pollLog EXCEPT !.outcomes = Append(@, ret[t].ok)]
       IN IF ret[t].ok
          THEN /\ pollLog' = [log EXCEPT !.result = "true"]
               /\ Settle(t, Val("pollForAvailability", "return", TRUE, "true"))
               /\ UNCHANGED <<connections, clients>>
          ELSE IF pollSleeps(f.n, f.max)
          THEN /\ pollLog' = [log EXCEPT !.sleeps = @ + 1]
               /\ stk' = [stk EXCEPT ![t] = At(t, "sleep")]
               /\ ret' = [ret EXCEPT ![t] = NoVal]
               /\ UNCHANGED <<connections, clients>>
          ELSE pollNext(t, log)
    /\ UNCHANGED <<dev, cfg, scanLog, instLog>>

\* the interval has passed
pollForAvailability_slept(t) ==
    /\ Quiet /\ Running(t, "pollForAvailability", "sleep")
    /\ pollNext(t, pollLog)
    /\ UNCHANGED <<dev, cfg, scanLog, instLog>>

\* maxAttempts < 1: the loop body never runs
pollForAvailability_exhausted(t) ==
    /\ Quiet /\ Running(t, "pollForAvailability", "exhausted")
    /\ pollLog' = [pollLog EXCEPT !.result = "false"]
    /\ Settle(t, Val("pollForAvailability", "return", FALSE, "false"))
    /\ UNCHANGED <<connections, clients, dev, cfg, scanLog, instLog>>

-----------------------------------------------------------------------------
(* NetworkScanner.expandSubnet *)

\* An address is the tuple of the four numbers of its dotted form; a range
\* "a.b.c.d/m" is the pair of what split('/') yields: the address and the
\* characters after the first slash (the characters of "undefined" when
\* there is no slash).
Range(subnet, maskStr) == [subnet |-> subnet, maskStr |-> maskStr]

Undefined == <<"u", "n", "d", "e", "f", "i", "n", "e", "d">>

DigitChars == {"0", "1", "2", "3", "4", "5", "6", "7", "8", "9"}

DigitVal(ch) ==
    CASE ch = "0" -> 0 [] ch = "1" -> 1 [] ch = "2" -> 2 [] ch = "3" -> 3 [] ch = "4" -> 4
      [] ch = "5" -> 5 [] ch = "6" -> 6 [] ch = "7" -> 7 [] ch = "8" -> 8 [] ch = "9" -> 9

\* parseInt(str, 10): leading blanks and a sign are skipped, the longest run of
\* digits is the value, no digit at all is NaN
parseInt(str) ==
    LET blanks == CHOOSE b \in 0..Len(str) :
                     /\ \A i \in 1..b : str[i] = " "
                     /\ b < Len(str) => str[b + 1] # " "
        signed == blanks < Len(str) /\ str[blanks + 1] \in {"-", "+"}
        start  == IF signed THEN blanks + 1 ELSE blanks
        digits == CHOOSE d \in 0..(Len(str) - start) :
                     /\ \A i \in 1..d : str[start + i] \in DigitChars
                     /\ start + d < Len(str) => str[start + d + 1] \notin DigitChars
        val[i \in 0..digits] ==
            IF i = 0 THEN 0 ELSE val[i - 1] * 10 + DigitVal(str[start + i])
    IN  IF digits = 0
        THEN [nan |-> TRUE, val |-> 0]
        ELSE [nan |-> FALSE,
              val |-> IF signed /\ str[blanks + 1] = "-" THEN 0 - val[digits] ELSE val[digits]]

\* A 32-bit address value is kept as its two 16-bit halves.
\* ip.toLong: the four numbers, shifted in from the left
toLong(addr) == [hi |-> addr[1] * 256 + addr[2], lo |-> addr[3] * 256 + addr[4]]

\* ip.fromLong: the four bytes of the value (taken modulo 2^32)
fromLong(long) == <<long.hi \div 256, long.hi % 256, long.lo \div 256, long.lo % 256>>

\* baseAddress + i, for 0 <= i <= 65536, as ip.fromLong will read it
plus(long, i) ==
    [hi |-> (long.hi + (long.lo + i) \div 65536) % 65536, lo |-> (long.lo + i) % 65536]

\* `isNaN(mask) || mask < 16 || mask > 30`
maskRejected(mask) == mask.nan \/ mask.val < 16 \/ mask.val > 30

\* `for (let i = 1; i < numHosts - 1; i++) ips.push(ip.fromLong(baseAddress + i))`
hosts(baseAddress, numHosts) ==
    [i \in 1..(numHosts - 2) |-> fromLong(plus(baseAddress, i))]

expandSubnet(subnetRange) ==
    IF maskRejected(parseInt(subnetRange.maskStr))
    THEN <<>>
    ELSE hosts(toLong(subnetRange.subnet), 2 ^ (32 - parseInt(subnetRange.maskStr).val))

-----------------------------------------------------------------------------
(* Calls from outside: the IPC handlers of main.ts and the tests' direct calls *)

Router == <<192, 168, 8, 1>>

Other == <<10, 0, 0, 1>>

NoScan == [build |-> "", ranges |-> <<>>]

\* the results array of the running scan, and its history: the TCP probes and
\* the enrichments in order, the ranges rejected (each with the numbers of
\* probes and enrichments made before), what a direct call of expandSubnet returned
NoScanLog == [probes |-> <<>>, enriched |-> <<>>, rejected |-> {}, results |-> <<>>,
              returned |-> FALSE, ips |-> <<>>, expanded |-> FALSE]

\* history of one install call: its input, the stages passed to updateStatus,
\* the stages of the pipeline whose code was entered, the commands sent, the primitives called, and what the caller had set up
NoInstLog == [release |-> "", stages |-> <<>>, entered |-> <<>>, cmds |-> <<>>,
              escaped |-> FALSE,
              downloads |-> 0, transfers |-> 0, polls |-> 0, applyThrew |-> "",
              failed |-> {}, pw0 |-> "", ipcLive |-> FALSE, sent |-> "",
              wentDown |-> FALSE]

NoPollLog == PollLog(0, <<>>, 0, "none")

Begin(t) == Idle /\ ret' = [ret EXCEPT ![t] = NoVal]

\* a call that is not a poll starts with the poll history cleared
NoPoll == pollLog' = NoPollLog

call_connect(t, k, ip, pw) ==
    /\ Begin(t)
    /\ connectEnter(t, <<>>, CState, k, ip, pw)
    /\ NoPoll /\ UNCHANGED <<dev, cfg, scanLog, instLog>>

call_getRouterInfo(t, k, ip) ==
    /\ Begin(t)
    /\ getRouterInfoEnter(t, <<>>, CState, k, ip)
    /\ NoPoll /\ UNCHANGED <<dev, cfg, scanLog, instLog>>

call_executeRemoteCommand(t, k, ip, cmd) ==
    /\ Begin(t)
    /\ executeRemoteCommandEnter(t, <<>>, CState, k, ip, cmd)
    /\ NoPoll /\ UNCHANGED <<dev, cfg, scanLog, instLog>>

call_transferFile(t, k, ip, pw) ==
    /\ Begin(t)
    /\ transferFileEnter(t, <<>>, CState, k, ip, pw)
    /\ NoPoll /\ UNCHANGED <<dev, cfg, scanLog, instLog>>

call_pollForAvailability(t, k, ip, max) ==
    /\ Begin(t)
    /\ pollForAvailabilityEnter(t, <<>>, CState, k, ip, max)
    /\ UNCHANGED <<dev, cfg, scanLog, instLog>>

call_closeConnection(t, k, ip) ==
    /\ Begin(t)
    /\ LET S1 == closeConnection(CState, k, ip) IN
        /\ connections' = S1.conns
        /\ clients' = S1.cls
    /\ NoPoll /\ UNCHANGED <<dev, stk, cfg, scanLog, instLog>>

call_closeAllConnections(t, k) ==
    /\ Begin(t)
    /\ LET S1 == closeAllConnections(CState, k) IN
        /\ connections' = S1.conns
        /\ clients' = S1.cls
    /\ NoPoll /\ UNCHANGED <<dev, stk, cfg, scanLog, instLog>>

-----------------------------------------------------------------------------
(* SpecSsh: one SshConnector, called from outside, one call at a time *)

SshAddrs == {Router, Other}

InitSsh ==
    /\ connections = [k \in Connectors |-> EmptyMap]
    /\ clients = EmptyMap
    /\ dev \in [SshAddrs -> {Device(up, pw, "openwrt", "openwrt", "none", FALSE) :
                               up \in BOOLEAN, pw \in {"", "p"}}]
    /\ stk = [t \in Threads |-> <<>>]
    /\ ret = [t \in Threads |-> NoVal]
    /\ cfg = NoScan
    /\ scanLog = NoScanLog
    /\ pollLog = NoPollLog
    /\ instLog = NoInstLog

SshCalls ==
    \/ \E ip \in SshAddrs :
        \/ \E pw \in {"", "p"} : call_connect(1, "ipc", ip, pw)
        \/ call_getRouterInfo(1, "ipc", ip)
        \/ \E max \in 0..MaxPollArg : call_pollForAvailability(1, "ipc", ip, max)
        \/ call_closeConnection(1, "ipc", ip)
    \/ call_executeRemoteCommand(1, "ipc", Router, CmdLs)
    \/ \E pw \in {"", "p"} : call_transferFile(1, "ipc", Router, pw)
    \/ call_closeAllConnections(1, "ipc")

\* the steps of connect and getRouterInfo
InfoSteps ==
    \E t \in Threads :
        \/ connect_ready(t) \/ connect_fail(t)
        \/ executeCommand_close(t) \/ executeCommand_error(t)
        \/ getRouterInfo_reconnected(t) \/ getRouterInfo_parsed(t)

\* the steps of the connector the IPC handlers and install drive
ConnSteps ==
    \/ InfoSteps
    \/ \E t \in Threads :
        \/ executeRemoteCommand_done(t)
        \/ transferFile_mkdirDone(t)
        \/ transferFile_scpExit(t) \/ transferFile_scpError(t)
        \/ quickConnectAttempt_ready(t) \/ quickConnectAttempt_fail(t)
        \/ pollForAvailability_attempted(t) \/ pollForAvailability_slept(t)

\* the steps only calls without a registered session, or a poll without budget, take
SshSteps ==
    \E t \in Threads :
        \/ executeRemoteCommand_reconnected(t)
        \/ transferFile_reconnected(t)
        \/ pollForAvailability_exhausted(t)

Network ==
    \/ \E ip \in DOMAIN dev : DevDown(ip) \/ DevUp(ip) \/ FileLost(ip)
    \/ \E c \in DOMAIN clients : onClose(c)

NextSsh == SshCalls \/ ConnSteps \/ SshSteps \/ Network

SpecSsh == InitSsh /\ [][NextSsh]_vars

-----------------------------------------------------------------------------
(* SpecOverlap: connect called again while a connect is awaiting its handshake *)

MaxClients == 2

\* connect(ip, password) called on thread t while the other thread may be
\* inside a connect of its own: nothing in connect waits for it
overlap_connect(t, k, ip, pw) ==
    /\ stk[t] = <<>>
    /\ Cardinality(DOMAIN clients) < MaxClients
    /\ connectEnter(t, <<>>, CState, k, ip, pw)
    /\ ret' = [ret EXCEPT ![t] = NoVal]
    /\ UNCHANGED <<dev, cfg, scanLog, pollLog, instLog>>

InitOverlap ==
    /\ connections = [k \in Connectors |-> EmptyMap]
    /\ clients = EmptyMap
    /\ dev \in [{Router} -> {Device(up, pw, "openwrt", "openwrt", "none", FALSE) :
                               up \in BOOLEAN, pw \in {"", "p"}}]
    /\ stk = [t \in Threads |-> <<>>]
    /\ ret = [t \in Threads |-> NoVal]
    /\ cfg = NoScan
    /\ scanLog = NoScanLog
    /\ pollLog = NoPollLog
    /\ instLog = NoInstLog

NextOverlap ==
    \/ \E t \in Threads, pw \in {"", "p"} : overlap_connect(t, "ipc", Router, pw)
    \/ \E t \in Threads : connect_ready(t) \/ connect_fail(t)
    \/ \E ip \in DOMAIN dev : DevDown(ip) \/ DevUp(ip)
    \/ \E c \in DOMAIN clients : onClose(c)

SpecOverlap == InitOverlap /\ [][NextOverlap]_vars

-----------------------------------------------------------------------------
(* InstallerEngine.install *)

\* the poll budget install passes: 30 attempts, 5000 ms apart
InstallPollAttempts == 30

\* the InstallStatus install returns
Status(success, step, progress, error) ==
    [fn |-> "install", kind |-> "return", ok |-> success, s |-> error,
     step |-> step, progress |-> progress]

\* NDKEvent.deserialize(new NDK(), releaseData): release data that is absent
\* (undefined) or no serialized event makes JSON.parse throw
deserializeThrows(releaseData) == releaseData \in {"absent", "garbage"}

\* String.prototype.toLowerCase on the distribution names devices report
toLowerCase(str) == IF str = "OpenWrt" THEN "openwrt" ELSE str

\* releaseEvent.getMatchingTags('url')?.[0]?.[1]
firmwareUrl(releaseData) == IF releaseData = "valid" THEN "https://host/firmware.bin" ELSE ""

\* mutant: the verification of the transfer is left out
stageAfter_noVerify(step) ==
    CASE step = "preparing"          -> "downloading"
      [] step = "downloading"        -> "transferring"
      [] step = "transferring"       -> "installing"
      [] step = "verifying"          -> "installing"
      [] step = "installing"         -> "waiting-for-reboot"
      [] step = "waiting-for-reboot" -> "verifying-installation"

\* the stage install announces next, after the stage `step` has succeeded
stageAfter(step) ==
    CASE step = "preparing"          -> "downloading"
      [] step = "downloading"        -> "transferring"
      [] step = "transferring"       -> "verifying"
      [] step = "verifying"          -> "installing"
      [] step = "installing"         -> "waiting-for-reboot"
      [] step = "waiting-for-reboot" -> "verifying-installation"

\* updateStatus(step, progress): logs the stage after a 1 s timer; `passed`
\* are the stages whose code ran since the last one logged
updateStatus(t, step, passed) ==
    /\ stk' = [stk EXCEPT ![t] = At(t, step)]
    /\ instLog' = [instLog EXCEPT !.stages = Append(@, step),
                                  !.entered = Append(@ \o passed, step)]

\* mutant: the thrown error of the firmware-apply command ends the run
upgradeErrorIsFatal_always(v) == v.kind = "throw"

\* the catch around the sysupgrade command swallows every error
upgradeErrorIsFatal_unlessClosed(v) == v.kind = "throw" /\ v.s # "connection closed"
upgradeErrorIsFatal(v) == FALSE

\* the call itself: deserialization happens before the try block, so its
\* error rejects the promise install returns
installCalled(t, ip, releaseData, sent) ==
    LET log == [NoInstLog EXCEPT
                  !.release = releaseData,
                  !.sent = sent,
                  !.pw0 = IF ip \in DOMAIN dev THEN dev[ip].pw ELSE "",
                  !.ipcLive = Live(MapGet(connections["ipc"], ip))]
    IN
    /\ Idle /\ NoPoll
    /\ IF deserializeThrows(releaseData)
       THEN /\ ret' = [ret EXCEPT ![t] = Val("install", "throw", FALSE, "SyntaxError")]
            /\ stk' = stk
            /\ instLog' = [log EXCEPT !.escaped = TRUE]
       ELSE /\ ret' = [ret EXCEPT ![t] = NoVal]
            /\ stk' = [stk EXCEPT ![t] =
                         <<Frame("install", "preparing", "installer", ip, releaseData, 0, 0, 0)>>]
            /\ instLog' = [log EXCEPT !.stages = <<"preparing">>, !.entered = <<"preparing">>]
    /\ UNCHANGED <<connections, clients, dev, cfg, scanLog>>

\* install(ip, releaseData) called directly
call_install(t, ip, releaseData) == installCalled(t, ip, releaseData, "")

\* preload.ts, installTollgate: the arguments given to
\* ipcRenderer.invoke('install-tollgate', ...): the address alone
installTollgate(ip, releaseEvent) == <<ip>>

\* a parameter of the handler for which no argument was sent is undefined
argument(args, i) == IF i <= Len(args) THEN args[i] ELSE "absent"

\* App.tsx calls window.electron.installTollgate(ip, selectedRelease.serialize());
\* main.ts, ipcMain.handle('install-tollgate'), calls install(ip, releaseEvent)
\* with the arguments it received
ipc_install_tollgate(t, ip, releaseEvent) ==
    installCalled(t, argument(installTollgate(ip, releaseEvent), 1),
                  argument(installTollgate(ip, releaseEvent), 2), releaseEvent)

\* mutant: the failure result carries no error text
Abort_noError(t, step, progress, error, passed) ==
    /\ Settle(t, Status(FALSE, step, progress, ""))
    /\ instLog' = [instLog EXCEPT !.failed = @ \cup {step}, !.entered = @ \o passed]

\* the install frame fails with a terminal result
Abort(t, step, progress, error, passed) ==
    /\ Settle(t, Status(FALSE, step, progress, error))
    /\ instLog' = [instLog EXCEPT !.failed = @ \cup {step}, !.entered = @ \o passed]

\* 'preparing' is logged: ask the connector of the engine for the board information
install_getRouterInfo(t) ==
    /\ Quiet /\ Running(t, "install", "preparing")
    /\ getRouterInfoEnter(t, At(t, "routerInfo"), CState, Top(t).k, Top(t).ip)
    /\ UNCHANGED <<dev, ret, cfg, scanLog, pollLog, instLog>>

\* the compatibility gate and the firmware URL
install_compatibility(t) ==
    /\ Running(t, "install", "routerInfo") /\ Resumed(t)
    /\ LET routerInfo == JSONparse(ret[t].s) IN
       IF ~ret[t].ok
       THEN Abort(t, "compatibility-check", 0, "Unable to get router information",
                  <<"compatibility-check">>)
       ELSE IF toLowerCase(routerInfo.distribution) # "openwrt" \/ routerInfo.board_name = ""
       THEN Abort(t, "compatibility-check", 0, "Router is not running OpenWrt or missing board info",
                  <<"compatibility-check">>)
       ELSE IF firmwareUrl(Top(t).arg) = ""
       THEN Abort(t, "download-preparation", 15, "Firmware URL not found in release information",
                  <<"compatibility-check", "download-preparation">>)
       ELSE /\ updateStatus(t, stageAfter("preparing"),
                            <<"compatibility-check", "download-preparation">>)
            /\ ret' = [ret EXCEPT ![t] = NoVal]
    /\ UNCHANGED <<connections, clients, dev, cfg, scanLog, pollLog>>

\* 'downloading' is logged: downloadFile starts
install_download(t) ==
    /\ Quiet /\ Running(t, "install", "downloading")
    /\ stk' = [stk EXCEPT ![t] = At(t, "download")]
    /\ instLog' = [instLog EXCEPT !.downloads = @ + 1]
    /\ UNCHANGED <<connections, clients, dev, ret, cfg, scanLog, pollLog>>

\* downloadFile settles: it returns the local path, or rethrows the HTTP or
\* file error
downloadFile_settled(t) ==
    /\ Quiet /\ Running(t, "install", "download")
    /\ \E kind \in {"return", "throw"} :
         ret' = [ret EXCEPT ![t] = Val("downloadFile", kind, kind = "return", "")]
    /\ UNCHANGED <<connections, clients, dev, stk, cfg, scanLog, pollLog, instLog>>

\* catch (downloadError) aborts, else 'transferring'
install_downloaded(t) ==
    /\ Running(t, "install", "download") /\ Resumed(t)
    /\ IF ret[t].kind = "throw"
       THEN Abort(t, "downloading", 25, "Failed to download firmware", <<>>)
       ELSE /\ updateStatus(t, stageAfter("downloading"), <<>>)
            /\ ret' = [ret EXCEPT ![t] = NoVal]
    /\ UNCHANGED <<connections, clients, dev, cfg, scanLog, pollLog>>

\* 'transferring' is logged: transferFile(ip, local, remote), no password
install_transfer(t) ==
    /\ Quiet /\ Running(t, "install", "transferring")
    /\ transferFileEnter(t, At(t, "transfer"), CState, Top(t).k, Top(t).ip, "")
    /\ instLog' = [instLog EXCEPT !.transfers = @ + 1]
    /\ UNCHANGED <<dev, ret, cfg, scanLog, pollLog>>

\* mutant: the result of transferFile is not looked at
transferFailed_ignored(transferSuccess) == FALSE

\* `if (!transferSuccess)`
transferFailed(transferSuccess) == ~transferSuccess.ok

install_transferred(t) ==
    /\ Running(t, "install", "transfer") /\ Resumed(t)
    /\ IF transferFailed(ret[t])
       THEN Abort(t, "transferring", 50, "Failed to transfer firmware to router", <<>>)
       ELSE /\ updateStatus(t, stageAfter("transferring"), <<>>)
            /\ ret' = [ret EXCEPT ![t] = NoVal]
    /\ UNCHANGED <<connections, clients, dev, cfg, scanLog, pollLog>>

\* 'verifying' is logged: list the remote file
install_verify(t) ==
    /\ Quiet /\ Running(t, "install", "verifying")
    /\ executeRemoteCommandEnter(t, At(t, "verify"), CState, Top(t).k, Top(t).ip, CmdLs)
    /\ instLog' = [instLog EXCEPT !.cmds = Append(@, CmdLs)]
    /\ UNCHANGED <<dev, ret, cfg, scanLog, pollLog>>

\* mutant: an error of the listing command is not caught as a failure
verifyFailed_ignored(verifyResult) == FALSE

\* `catch (verifyError)`: the listing command threw
verifyFailed(verifyResult) == verifyResult.kind = "throw"

install_verified(t) ==
    /\ Running(t, "install", "verify") /\ Resumed(t)
    /\ IF verifyFailed(ret[t])
       THEN Abort(t, "verifying", 65, "Failed to verify firmware on router", <<>>)
       ELSE /\ updateStatus(t, stageAfter("verifying"), <<>>)
            /\ ret' = [ret EXCEPT ![t] = NoVal]
    /\ UNCHANGED <<connections, clients, dev, cfg, scanLog, pollLog>>

\* 'installing' is logged: send the firmware-apply command
install_sysupgrade(t) ==
    /\ Quiet /\ Running(t, "install", "installing")
    /\ executeRemoteCommandEnter(t, At(t, "sysupgrade"), CState, Top(t).k, Top(t).ip, CmdSysupgrade)
    /\ instLog' = [instLog EXCEPT !.cmds = Append(@, CmdSysupgrade)]
    /\ UNCHANGED <<dev, ret, cfg, scanLog, pollLog>>

\* the command settled, by result or by error: go on to 'waiting-for-reboot'
install_upgraded(t) ==
    /\ Running(t, "install", "sysupgrade") /\ Resumed(t)
    /\ IF upgradeErrorIsFatal(ret[t])
       THEN /\ Settle(t, Status(FALSE, "installing", 75, ret[t].s))
            /\ instLog' = [instLog EXCEPT !.failed = @ \cup {"installing"},
                                          !.applyThrew = ret[t].s]
       ELSE /\ stk' = [stk EXCEPT ![t] = At(t, stageAfter("installing"))]
            /\ instLog' = [instLog EXCEPT
                             !.stages = Append(@, stageAfter("installing")),
                             !.entered = Append(@, stageAfter("installing")),
                             !.applyThrew = IF ret[t].kind = "throw" THEN ret[t].s ELSE ""]
            /\ ret' = [ret EXCEPT ![t] = NoVal]
    /\ UNCHANGED <<connections, clients, dev, cfg, scanLog, pollLog>>

\* 'waiting-for-reboot' is logged: poll, 30 attempts
install_poll(t) ==
    /\ Quiet /\ Running(t, "install", "waiting-for-reboot")
    /\ pollForAvailabilityEnter(t, At(t, "poll"), CState, Top(t).k, Top(t).ip, InstallPollAttempts)
    /\ instLog' = [instLog EXCEPT !.polls = @ + 1]
    /\ UNCHANGED <<dev, ret, cfg, scanLog>>

install_polled(t) ==
    /\ Running(t, "install", "poll") /\ Resumed(t)
    /\ IF ~ret[t].ok
       THEN Abort(t, "waiting-for-reboot", 85, "Router did not come back online after firmware upgrade", <<>>)
       ELSE /\ updateStatus(t, stageAfter("waiting-for-reboot"), <<>>)
            /\ ret' = [ret EXCEPT ![t] = NoVal]
    /\ UNCHANGED <<connections, clients, dev, cfg, scanLog, pollLog>>

\* 'verifying-installation' is logged: read the version marker
install_version(t) ==
    /\ Quiet /\ Running(t, "install", "verifying-installation")
    /\ executeRemoteCommandEnter(t, At(t, "version"), CState, Top(t).k, Top(t).ip, CmdVersion)
    /\ instLog' = [instLog EXCEPT !.cmds = Append(@, CmdVersion)]
    /\ UNCHANGED <<dev, ret, cfg, scanLog, pollLog>>

install_complete(t) ==
    /\ Running(t, "install", "version") /\ Resumed(t)
    /\ IF ret[t].kind = "throw"
       THEN Abort(t, "verifying-installation", 95, "Failed to verify TollGate OS installation", <<>>)
       ELSE IF ret[t].s = "Not TollGate OS"
       THEN Abort(t, "verifying-installation", 95, "Router did not boot into TollGate OS after upgrade", <<>>)
       ELSE /\ Settle(t, Status(TRUE, "complete", 100, ""))
            /\ instLog' = [instLog EXCEPT !.entered = Append(@, "complete")]
    /\ UNCHANGED <<connections, clients, dev, cfg, scanLog, pollLog>>

-----------------------------------------------------------------------------
(* SpecInstall: the user connects through the IPC handler, then installs *)

Boards == {"openwrt", "nodistro", "noboard", "nojson"}

Releases == {"valid", "nourl", "garbage", "absent"}

InitInstall ==
    /\ connections = [k \in Connectors |-> EmptyMap]
    /\ clients = EmptyMap
    /\ dev \in [{Router} -> {Device(TRUE, pw, board, "openwrt", "none", FALSE) :
                               pw \in {"", "p"}, board \in Boards}]
    /\ stk = [t \in Threads |-> <<>>]
    /\ ret = [t \in Threads |-> NoVal]
    /\ cfg = NoScan
    /\ scanLog = NoScanLog
    /\ pollLog = NoPollLog
    /\ instLog = NoInstLog

\* main.ts, app.on('before-quit'): the sessions of the connector of the IPC
\* handlers are closed
before_quit(t) ==
    /\ Idle
    /\ LET S1 == closeAllConnections(CState, "ipc") IN
        /\ connections' = S1.conns
        /\ clients' = S1.cls
    /\ UNCHANGED <<dev, stk, ret, cfg, scanLog, pollLog, instLog>>

InstallCalls ==
    \/ \E pw \in {"", "p"} : call_connect(1, "ipc", Router, pw)
    \/ before_quit(1)
    \/ \E releaseData \in Releases : call_install(1, Router, releaseData)
    \/ \E releaseEvent \in Releases \ {"absent"} : ipc_install_tollgate(1, Router, releaseEvent)

InstallSteps ==
    \E t \in Threads :
        \/ install_getRouterInfo(t) \/ install_compatibility(t)
        \/ install_download(t) \/ downloadFile_settled(t) \/ install_downloaded(t)
        \/ install_transfer(t) \/ install_transferred(t)
        \/ install_verify(t) \/ install_verified(t)
        \/ install_sysupgrade(t) \/ install_upgraded(t)
        \/ install_poll(t) \/ install_polled(t)
        \/ install_version(t) \/ install_complete(t)

NextInstall == InstallCalls \/ InstallSteps \/ ConnSteps \/ Network

SpecInstall == InitInstall /\ [][NextInstall]_vars

-----------------------------------------------------------------------------
(* NetworkScanner: two revisions of the class are in the sources *)

Builds == {"network-scanner.ts", "part_015"}

NoAddr == <<>>

\* one entry of the result list: {ip, sshOpen: true, meta}; of meta, the
\* status and isOpenwrt fields ("undefined" when the object has no such field)
ScanResult(ip, status, isOpenwrt) ==
    [ip |-> ip, sshOpen |-> TRUE, status |-> status, isOpenwrt |-> isOpenwrt]

\* what the scanner's helpers settle with: ok is "an object, not null",
\* for the enrichment "router information was obtained"
ScanVal(fn, ok, status, isOpenwrt) ==
    [fn |-> fn, kind |-> "return", ok |-> ok, s |-> isOpenwrt, step |-> status, progress |-> 0]

\* checkSshPort: socket.connect(22, ip) is called at once
checkSshPortEnter(t, s, ip, r, log) ==
    /\ stk' = [stk EXCEPT ![t] =
                 Append(s, Frame("checkSshPort", "probing", "scanner", ip, "", 0, r, 0))]
    /\ scanLog' = [log EXCEPT !.probes = Append(@, [ip |-> ip, range |-> r])]

\* 'connect': the port is open
checkSshPort_connect(t) ==
    /\ Quiet /\ Running(t, "checkSshPort", "probing")
    /\ ~Closed22(Top(t).ip)
    /\ Settle(t, Val("checkSshPort", "return", TRUE, ""))
    /\ UNCHANGED <<connections, clients, dev, cfg, scanLog, pollLog, instLog>>

\* 'timeout' or 'error': resolve(false)
checkSshPort_fail(t) ==
    /\ Quiet /\ Running(t, "checkSshPort", "probing")
    /\ Closed22(Top(t).ip)
    /\ Settle(t, Val("checkSshPort", "return", FALSE, ""))
    /\ UNCHANGED <<connections, clients, dev, cfg, scanLog, pollLog, instLog>>

\* enrichDeviceWithSSHInfo up to its first await: the scanner's getRouterInfo,
\* which asks the scanner's own connector
enrichDeviceWithSSHInfoEnter(t, s, S, ip) ==
    getRouterInfoEnter(t, Append(s, Frame("enrichDeviceWithSSHInfo", "routerInfo", "scanner",
                                          ip, "", 0, 0, 0)),
                       S, "scanner", ip)

\* after `await this.getRouterInfo(ipAddress)`: {} without router information;
\* with it, network-scanner.ts asks again (getOpenWrtBoardInfo), part_015
\* returns {isOpenwrt: true, boardInfo, routerInfo}
enrichDeviceWithSSHInfo_routerInfo(t) ==
    /\ Running(t, "enrichDeviceWithSSHInfo", "routerInfo") /\ Resumed(t)
    /\ LET f == Top(t) IN
        IF ~ret[t].ok
        THEN /\ Settle(t, ScanVal("enrichDeviceWithSSHInfo", FALSE, "", "undefined"))
             /\ UNCHANGED <<connections, clients>>
        ELSE IF cfg.build = "network-scanner.ts"
             THEN /\ getRouterInfoEnter(t, At(t, "boardInfo"), CState, "scanner", f.ip)
                  /\ ret' = [ret EXCEPT ![t] = NoVal]
             ELSE /\ Settle(t, ScanVal("enrichDeviceWithSSHInfo", TRUE, "", "true"))
                  /\ UNCHANGED <<connections, clients>>
    /\ UNCHANGED <<dev, cfg, scanLog, pollLog, instLog>>

\* network-scanner.ts, after `await this.getOpenWrtBoardInfo(ipAddress)`:
\* boardName is no field of the parsed object, so isOpenwrt is true
enrichDeviceWithSSHInfo_boardInfo(t) ==
    /\ Running(t, "enrichDeviceWithSSHInfo", "boardInfo") /\ Resumed(t)
    /\ Settle(t, ScanVal("enrichDeviceWithSSHInfo", TRUE, "", "true"))
    /\ UNCHANGED <<connections, clients, dev, cfg, scanLog, pollLog, instLog>>

\* part_015: checkAndEnrichDevice up to its first await
checkAndEnrichDeviceEnter(t, s, ip, r, log) ==
    checkSshPortEnter(t, Append(s, Frame("checkAndEnrichDevice", "probe", "scanner", ip, "", 0, r, 0)),
                      ip, r, log)

\* after `await this.checkSshPort(ipAddress)`: null when the port is closed
checkAndEnrichDevice_probed(t) ==
    /\ Running(t, "checkAndEnrichDevice", "probe") /\ Resumed(t)
    /\ LET f == Top(t) IN
        IF ~ret[t].ok
        THEN /\ Settle(t, ScanVal("checkAndEnrichDevice", FALSE, "", ""))
             /\ UNCHANGED <<connections, clients, scanLog>>
        ELSE /\ enrichDeviceWithSSHInfoEnter(t, At(t, "enrich"), CState, f.ip)
             /\ ret' = [ret EXCEPT ![t] = NoVal]
             /\ scanLog' = [scanLog EXCEPT !.enriched = Append(@, f.ip)]
    /\ UNCHANGED <<dev, cfg, pollLog, instLog>>

\* meta = {status: 'ready', ...deviceInfo}
checkAndEnrichDevice_enriched(t) ==
    /\ Running(t, "checkAndEnrichDevice", "enrich") /\ Resumed(t)
    /\ Settle(t, ScanVal("checkAndEnrichDevice", TRUE, "ready", ret[t].s))
    /\ UNCHANGED <<connections, clients, dev, cfg, scanLog, pollLog, instLog>>

\* the addresses the two loops of scanSubnetsForSsh still come to, from
\* address j of range r on, as pairs <<range, index>>; network-scanner.ts
\* skips the address it checked directly
sweepStops(r, j) ==
    {p \in UNION {{<<r2, j2>> : j2 \in 1..Len(expandSubnet(cfg.ranges[r2]))} :
                    r2 \in r..Len(cfg.ranges)} :
        /\ p[1] > r \/ p[2] >= j
        /\ ~(cfg.build = "network-scanner.ts" /\ expandSubnet(cfg.ranges[p[1]])[p[2]] = Router)}

\* the first of them in the order of the loops
sweepFirst(stops) ==
    CHOOSE p \in stops : \A q \in stops : p[1] < q[1] \/ (p[1] = q[1] /\ p[2] <= q[2])

\* the ranges from..upto are expanded on the way: a range whose expansion is
\* refused is logged ("Invalid subnet mask") and yields no address
sweepExpand(log, from, upto) ==
    [log EXCEPT !.rejected = @ \cup
        {[range |-> r2, probes |-> Len(log.probes), enriched |-> Len(log.enriched)] :
           r2 \in {q \in from..upto : maskRejected(parseInt(cfg.ranges[q].maskStr))}}]

\* the loops run up to the next address that is probed, or to their end
sweepNext(r, j, log, stops) ==
    IF stops = {}
    THEN [done |-> TRUE, r |-> Len(cfg.ranges) + 1, j |-> 1,
          log |-> sweepExpand(log, IF j = 1 THEN r ELSE r + 1, Len(cfg.ranges))]
    ELSE [done |-> FALSE, r |-> sweepFirst(stops)[1], j |-> sweepFirst(stops)[2],
          log |-> sweepExpand(log, IF j = 1 THEN r ELSE r + 1, sweepFirst(stops)[1])]

\* the next address is probed: checkAndEnrichDevice in part_015, checkSshPort
\* in network-scanner.ts
sweepProbe(t, s, r, j, ip, log) ==
    /\ ret' = [ret EXCEPT ![t] = NoVal]
    /\ IF cfg.build = "part_015"
       THEN checkAndEnrichDeviceEnter(
              t, [s EXCEPT ![Len(s)] = [@ EXCEPT !.n = r, !.max = j, !.ip = ip, !.pc = "check"]],
              ip, r, log)
       ELSE checkSshPortEnter(
              t, [s EXCEPT ![Len(s)] = [@ EXCEPT !.n = r, !.max = j, !.ip = ip, !.pc = "probe"]],
              ip, r, log)

\* scanSubnetsForSsh (the frame on top of s) probes the next address nx, or
\* returns its results
sweepTo(t, s, nx) ==
    IF nx.done
    THEN /\ stk' = [stk EXCEPT ![t] = SubSeq(s, 1, Len(s) - 1)]
         /\ ret' = [ret EXCEPT ![t] = Val("scanSubnetsForSsh", "return", TRUE, "")]
         /\ scanLog' = nx.log
    ELSE sweepProbe(t, s, nx.r, nx.j, expandSubnet(cfg.ranges[nx.r])[nx.j], nx.log)

\* scanSubnetsForSsh goes on from address j of range r
sweep(t, s, r, j, log) == sweepTo(t, s, sweepNext(r, j, log, sweepStops(r, j)))

\* network-scanner.ts, after `await this.checkSshPort(ipAddress)`, for the
\* hard-coded address and in the loop: enrich an open address, else go on
scanSubnetsForSsh_probed(t) ==
    /\ Resumed(t) /\ Top(t).fn = "scanSubnetsForSsh" /\ Top(t).pc \in {"direct-probe", "probe"}
    /\ LET f == Top(t)
           direct == f.pc = "direct-probe"
       IN IF ret[t].ok
          THEN /\ enrichDeviceWithSSHInfoEnter(
                    t, At(t, IF direct THEN "direct-enrich" ELSE "enrich"), CState, f.ip)
               /\ ret' = [ret EXCEPT ![t] = NoVal]
               /\ scanLog' = [scanLog EXCEPT !.enriched = Append(@, f.ip)]
          ELSE /\ sweep(t, stk[t], IF direct THEN 1 ELSE f.n, IF direct THEN 1 ELSE f.max + 1,
                        scanLog)
               /\ UNCHANGED <<connections, clients>>
    /\ UNCHANGED <<dev, cfg, pollLog, instLog>>

\* network-scanner.ts, after `meta = await this.enrichDeviceWithSSHInfo(..)`:
\* meta is the enrichment's object (the initial {status: 'ready'} is dropped),
\* {} included, and `if (meta) meta.isOpenwrt = true`
scanSubnetsForSsh_enriched(t) ==
    /\ Resumed(t) /\ Top(t).fn = "scanSubnetsForSsh" /\ Top(t).pc \in {"direct-enrich", "enrich"}
    /\ LET f == Top(t)
           direct == f.pc = "direct-enrich"
       IN sweep(t, stk[t], IF direct THEN 1 ELSE f.n, IF direct THEN 1 ELSE f.max + 1,
                [scanLog EXCEPT !.results = Append(@, ScanResult(f.ip, "undefined", "true"))])
    /\ UNCHANGED <<connections, clients, dev, cfg, pollLog, instLog>>

\* part_015, after `await this.checkAndEnrichDevice(ipAddress)`: the first
\* device found is pushed and the results are returned at once
scanSubnetsForSsh_checked(t) ==
    /\ Running(t, "scanSubnetsForSsh", "check") /\ Resumed(t)
    /\ LET f == Top(t) IN
        IF ret[t].ok
        THEN /\ Settle(t, Val("scanSubnetsForSsh", "return", TRUE, ""))
             /\ scanLog' = [scanLog EXCEPT
                              !.results = Append(@, ScanResult(f.ip, ret[t].step, ret[t].s))]
        ELSE sweep(t, stk[t], f.n, f.max + 1, scanLog)
    /\ UNCHANGED <<connections, clients, dev, cfg, pollLog, instLog>>

\* scan's filter: the first entry of every address is kept
dedup(results) ==
    LET first == {i \in 1..Len(results) :
                    \A j \in 1..(i - 1) : results[j].ip # results[i].ip}
        nth(k) == CHOOSE i \in first : Cardinality({j \in first : j <= i}) = k
    IN  [k \in 1..Cardinality(first) |-> results[nth(k)]]

\* NetworkScanner.scan: gateway detection is disabled, the subnet scan starts at once
call_scan(t) ==
    /\ Idle /\ NoPoll
    /\ LET s0 == <<Frame("scan", "subnets", "scanner", NoAddr, "", 0, 0, 0)>> IN
        IF cfg.build = "network-scanner.ts"
        THEN /\ checkSshPortEnter(
                  t, Append(s0, Frame("scanSubnetsForSsh", "direct-probe", "scanner", Router,
                                      "", 0, 0, 0)),
                  Router, 0, NoScanLog)
             /\ ret' = [ret EXCEPT ![t] = NoVal]
        ELSE sweep(t, Append(s0, Frame("scanSubnetsForSsh", "check", "scanner", NoAddr,
                                       "", 0, 0, 0)),
                   1, 1, NoScanLog)
    /\ UNCHANGED <<connections, clients, dev, cfg, instLog>>

\* after `await this.scanSubnetsForSsh()`
scan_return(t) ==
    /\ Running(t, "scan", "subnets") /\ Resumed(t)
    /\ Settle(t, Val("scan", "return", TRUE, ""))
    /\ scanLog' = [scanLog EXCEPT !.results = dedup(@), !.returned = TRUE]
    /\ UNCHANGED <<connections, clients, dev, cfg, pollLog, instLog>>

-----------------------------------------------------------------------------
(* SpecScan: one NetworkScanner of either revision, scanning a static network *)

\* the decimal numeral of a number below 100, as the characters of a mask
Dec(m) ==
    LET ch(d) == CHOOSE c \in DigitChars : DigitVal(c) = d IN
    IF m < 10 THEN <<ch(m)>> ELSE <<ch(m \div 10), ch(m % 10)>>

\* subnetRanges of the constructor's config: small blocks, one of them with a
\* base that is not aligned, and ranges with a mask the code refuses
ScanRanges ==
    {Range(<<10, 0, 0, 0>>, Dec(30)), Range(<<192, 168, 8, 0>>, Dec(30)),
     Range(<<10, 0, 0, 1>>, Dec(30)),
     Range(<<10, 0, 1, 0>>, Dec(15)), Range(<<10, 0, 1, 0>>, Dec(31)),
     Range(<<10, 0, 1, 0>>, <<"a", "b", "c">>), Range(<<10, 0, 1, 0>>, Undefined)}

ScanAddrs == {<<10, 0, 0, 1>>, <<10, 0, 0, 2>>, <<10, 0, 0, 3>>, Router}

InitScan ==
    /\ connections = [k \in Connectors |-> EmptyMap]
    /\ clients = EmptyMap
    /\ dev \in [ScanAddrs -> {Device(up, pw, "openwrt", "openwrt", "none", FALSE) :
                                up \in BOOLEAN, pw \in {"", "p"}}]
    /\ \A a \in ScanAddrs : dev[a].pw = "p" => dev[a].up /\ a \in {Router, <<10, 0, 0, 2>>}
    /\ stk = [t \in Threads |-> <<>>]
    /\ ret = [t \in Threads |-> NoVal]
    /\ cfg \in [build : Builds,
                ranges : {<<r>> : r \in ScanRanges} \cup {<<r, q>> : r, q \in ScanRanges}]
    /\ scanLog = NoScanLog
    /\ pollLog = NoPollLog
    /\ instLog = NoInstLog

ScanSteps ==
    \E t \in Threads :
        \/ checkSshPort_connect(t) \/ checkSshPort_fail(t)
        \/ enrichDeviceWithSSHInfo_routerInfo(t) \/ enrichDeviceWithSSHInfo_boardInfo(t)
        \/ checkAndEnrichDevice_probed(t) \/ checkAndEnrichDevice_enriched(t)
        \/ scanSubnetsForSsh_probed(t) \/ scanSubnetsForSsh_enriched(t)
        \/ scanSubnetsForSsh_checked(t)
        \/ scan_return(t)

\* the methods of the NetworkScanner class, by revision
NetworkScannerMethods(build) ==
    {"scan", "scanSubnetsForSsh", "checkSshPort", "expandSubnet", "getOpenWrtBoardInfo",
     "getRouterInfo", "enrichDeviceWithSSHInfo"}
      \cup (IF build = "network-scanner.ts" THEN {"checkIfOpenwrt"}
            ELSE {"isOpenwrt", "checkAndEnrichDevice"})

\* main.ts, ipcMain.handle('check-device'): `networkScanner.checkManualDevice(ip)`
\* is evaluated; the class has no such method, the call throws a TypeError
\* and the promise of the handler rejects
ipc_check_device(t, ip) ==
    /\ Idle
    /\ "checkManualDevice" \notin NetworkScannerMethods(cfg.build)
    /\ ret' = [ret EXCEPT ![t] =
                 [Val("check-device", "throw", FALSE,
                      "TypeError: networkScanner.checkManualDevice is not a function")
                    EXCEPT !.step = ip]]
    /\ UNCHANGED <<connections, clients, dev, stk, cfg, scanLog, pollLog, instLog>>

NextScan ==
    \/ call_scan(1)
    \/ \E ip \in ScanAddrs : ipc_check_device(1, ip)
    \/ ScanSteps \/ InfoSteps

SpecScan == InitScan /\ [][NextScan]_vars

-----------------------------------------------------------------------------
(* SpecSubnet: expandSubnet applied to one range *)

SubnetBases ==
    {<<10, 0, 0, 0>>, <<192, 168, 1, 0>>, <<192, 168, 1, 5>>, <<10, 0, 0, 1>>,
     <<172, 16, 0, 0>>, <<255, 255, 255, 250>>}

MaskStrs ==
    {Dec(m) : m \in 15..31}
      \cup {Undefined, <<>>, <<"a", "b", "c">>, <<"2", "4", "x">>, <<" ", "2", "4">>,
            <<"-", "2", "4">>, Dec(0), Dec(8), Dec(32)}

InitSubnet ==
    /\ connections = [k \in Connectors |-> EmptyMap]
    /\ clients = EmptyMap
    /\ dev = EmptyMap
    /\ stk = [t \in Threads |-> <<>>]
    /\ ret = [t \in Threads |-> NoVal]
    /\ cfg \in [build : Builds, ranges : {<<Range(b, m)>> : b \in SubnetBases, m \in MaskStrs}]
    /\ scanLog = NoScanLog
    /\ pollLog = NoPollLog
    /\ instLog = NoInstLog

call_expandSubnet ==
    /\ Idle /\ ~scanLog.expanded
    /\ scanLog' = [scanLog EXCEPT
                     !.ips = expandSubnet(cfg.ranges[1]),
                     !.expanded = TRUE,
                     !.rejected = IF maskRejected(parseInt(cfg.ranges[1].maskStr))
                                  THEN {[range |-> 1, probes |-> 0, enriched |-> 0]}
                                  ELSE {}]
    /\ UNCHANGED <<connections, clients, dev, stk, ret, cfg, pollLog, instLog>>

NextSubnet == call_expandSubnet

SpecSubnet == InitSubnet /\ [][NextSubnet]_vars

-----------------------------------------------------------------------------
(* releaseUtils.isReleaseCompatible: two revisions of it are in the sources *)

MaxStr == 2

UtilBuilds == {"releaseUtils.ts", "part_002"}

\* strings are sequences of characters; these are the characters they are made of
Chars == {"a", "A", "b"}

Strs == UNION {[1..n -> Chars] : n \in 0..MaxStr}

\* String.prototype.toLowerCase, character by character
toLowerCaseChars(str) == [i \in 1..Len(str) |-> IF str[i] = "A" THEN "a" ELSE str[i]]

\* String.prototype.includes: searchString occurs in str at some position
includes(str, searchString) ==
    \E i \in 0..(Len(str) - Len(searchString)) :
        SubSeq(str, i + 1, i + Len(searchString)) = searchString

\* a release event carries at most one tag here: its name and its value
Release(name, value) == [name |-> name, value |-> value]

\* release.getMatchingTags(name)?.[0]?.[1]
getMatchingTags(release, name) ==
    IF release.name = name THEN release.value ELSE Undefined

\* `!x` for a string that may be undefined
Falsy(x) == x = Undefined \/ x = <<>>

\* the tag each revision reads
compatibilityTag(build) == IF build = "releaseUtils.ts" THEN "model" ELSE "supported_devices"

isReleaseCompatible(build, release, routerBoardName) ==
    IF Falsy(routerBoardName) THEN FALSE
    ELSE IF Falsy(getMatchingTags(release, compatibilityTag(build))) THEN FALSE
    ELSE IF build = "releaseUtils.ts"
         THEN includes(toLowerCaseChars(routerBoardName),
                       toLowerCaseChars(getMatchingTags(release, "model")))
         ELSE includes(toLowerCaseChars(getMatchingTags(release, "supported_devices")),
                       toLowerCaseChars(routerBoardName))

-----------------------------------------------------------------------------
(* SpecCompat: isReleaseCompatible applied to one release and one board name *)

CompatReleases ==
    {Release("", Undefined)}
      \cup {Release(name, value) : name \in {"model", "supported_devices"}, value \in Strs}

InitCompat ==
    /\ connections = [k \in Connectors |-> EmptyMap]
    /\ clients = EmptyMap
    /\ dev = EmptyMap
    /\ stk = [t \in Threads |-> <<>>]
    /\ ret = [t \in Threads |-> NoVal]
    /\ cfg \in [build : UtilBuilds, release : CompatReleases,
                boardName : Strs \cup {Undefined}]
    /\ scanLog = NoScanLog
    /\ pollLog = NoPollLog
    /\ instLog = NoInstLog

call_isReleaseCompatible ==
    /\ Idle /\ ret[1].kind = "none"
    /\ ret' = [ret EXCEPT ![1] =
                 Val("isReleaseCompatible", "return",
                     isReleaseCompatible(cfg.build, cfg.release, cfg.boardName), "")]
    /\ UNCHANGED <<connections, clients, dev, stk, cfg, scanLog, pollLog, instLog>>

NextCompat == call_isReleaseCompatible

SpecCompat == InitCompat /\ [][NextCompat]_vars

-----------------------------------------------------------------------------
(* NostrReleaseProvider: the effect that subscribes to the release feed.    *)
(* cfg holds the component state (releases, loading, error), the closure     *)
(* variable hasReceivedEvents and the position of connectToNostr.            *)

\* `for (let i = 0; i < 3; i++)` of getMockReleases
MockCount == 3

\* the day getMockReleases runs on, in days (created_at of the first mock)
MockDay == 3

\* the events of the publisher the relays hold: signed, so each has its id
FeedEvents ==
    { [id |-> "a", created_at |-> 0, mock |-> FALSE],
      [id |-> "b", created_at |-> 2, mock |-> FALSE],
      [id |-> "c", created_at |-> 2, mock |-> FALSE],
      [id |-> "d", created_at |-> 3, mock |-> FALSE],
      [id |-> "e", created_at |-> 4, mock |-> FALSE] }

\* getMockReleases: three unsigned events (id ''), one day apart, newest first
getMockReleases ==
    [i \in 1..MockCount |-> [id |-> "", created_at |-> MockDay - (i - 1), mock |-> TRUE]]

\* `prevReleases.some(e => e.id === event.id)`
eventExists(prevReleases, event) ==
    \E i \in 1..Len(prevReleases) : prevReleases[i].id = event.id

\* Array.prototype.sort is stable: x goes behind the entries that are not older
insertNewestFirst(sorted, x) ==
    LET n == Cardinality({i \in 1..Len(sorted) : sorted[i].created_at >= x.created_at})
    IN SubSeq(sorted, 1, n) \o <<x>> \o SubSeq(sorted, n + 1, Len(sorted))

RECURSIVE sortNewestFirst(_)
\* `.sort((a, b) => (b.created_at || 0) - (a.created_at || 0))`
sortNewestFirst(list) ==
    IF list = <<>> THEN <<>>
    ELSE insertNewestFirst(sortNewestFirst(SubSeq(list, 1, Len(list) - 1)), list[Len(list)])

\* the updater passed to setReleases in the 'event' handler
addRelease(prevReleases, event) ==
    IF ~eventExists(prevReleases, event)
    THEN sortNewestFirst(Append(prevReleases, event))
    ELSE prevReleases

\* useState initial values, `let hasReceivedEvents = false`, connectToNostr
\* suspended at `await ndk.connect()`
InitFeed ==
    /\ connections = [k \in Connectors |-> EmptyMap]
    /\ clients = EmptyMap
    /\ dev = EmptyMap
    /\ stk = [t \in Threads |-> <<>>]
    /\ ret = [t \in Threads |-> NoVal]
    /\ cfg = [pc |-> "connect", releases |-> <<>>, loading |-> TRUE, error |-> "",
              hasReceivedEvents |-> FALSE, eose |-> FALSE]
    /\ scanLog = NoScanLog
    /\ pollLog = NoPollLog
    /\ instLog = NoInstLog

\* ndk.connect() resolved: the subscription exists and has its two handlers
connectToNostr_subscribed ==
    /\ cfg.pc = "connect"
    /\ cfg' = [cfg EXCEPT !.pc = "subscribed"]
    /\ UNCHANGED <<connections, clients, dev, stk, ret, scanLog, pollLog, instLog>>

\* the catch: error set, loading off, the mock releases published
connectToNostr_failed ==
    /\ cfg.pc = "connect"
    /\ cfg' = [cfg EXCEPT !.pc = "failed",
                          !.error = "Failed to connect to Nostr",
                          !.loading = FALSE,
                          !.releases = getMockReleases]
    /\ UNCHANGED <<connections, clients, dev, stk, ret, scanLog, pollLog, instLog>>

\* subscription.on('event'): closeOnEose is false, so events arrive before and
\* after the end of the stored events, and a relay may repeat an event
subscription_event(event) ==
    /\ cfg.pc = "subscribed"
    /\ cfg' = [cfg EXCEPT !.hasReceivedEvents = TRUE,
                          !.releases = addRelease(@, event),
                          !.loading = FALSE]
    /\ UNCHANGED <<connections, clients, dev, stk, ret, scanLog, pollLog, instLog>>

\* subscription.on('eose'): emitted once per subscription
subscription_eose ==
    /\ cfg.pc = "subscribed" /\ ~cfg.eose
    /\ cfg' = [cfg EXCEPT !.eose = TRUE,
                          !.releases = IF ~cfg.hasReceivedEvents THEN getMockReleases ELSE @,
                          !.loading = FALSE]
    /\ UNCHANGED <<connections, clients, dev, stk, ret, scanLog, pollLog, instLog>>

NextFeed ==
    \/ connectToNostr_subscribed
    \/ connectToNostr_failed
    \/ \E event \in FeedEvents : subscription_event(event)
    \/ subscription_eose

SpecFeed == InitFeed /\ [][NextFeed]_vars

\* C30 (as claimed): whatever the order of the subscription's events, the
\* published release list never holds mock releases together with live
\* releases received from the feed.
C30_NeverMockWithLive ==
    ~ /\ \E i \in 1..Len(cfg.releases) : cfg.releases[i].mock
      /\ \E i \in 1..Len(cfg.releases) : ~cfg.releases[i].mock

-----------------------------------------------------------------------------
(* Claims on the connection manager *)

\* the clients of connector k for address ip on which end() was not called
OpenClients(k, ip) == {c \in DOMAIN clients : clients[c].k = k /\ clients[c].ip = ip}

\* C1: on one SshConnector, under calls that do not overlap, every address has
\* at most one client that was not ended, in every state: in particular the
\* client of an earlier connect is ended before the client of the next
\* connect to the address exists or is registered.
C1_OneSessionPerAddress ==
    \A k \in Connectors : \A ip \in SshAddrs : Cardinality(OpenClients(k, ip)) <= 1

\* C1 witness: a second connect to the router is under way; it found the
\* session of an earlier call open, and its own client is now the only one
C1_Witness ==
    /\ Running(1, "connect", "connecting")
    /\ Top(1).ip = Router /\ Top(1).n = 1
    /\ OpenClients("ipc", Router) = {Top(1).c}

\* C6: pollForAvailability makes its attempts one after another; it returns
\* true at the first attempt that succeeds, false after exactly maxAttempts
\* failed attempts, never makes more than maxAttempts attempts, and sleeps
\* only between two attempts: never after the last one.
C6_PollBudget ==
    LET n == Len(pollLog.outcomes)
        failedBefore(m) == \A i \in 1..m : ~pollLog.outcomes[i]
    IN  /\ n <= pollLog.max
        /\ pollLog.result = "true" =>
              n >= 1 /\ pollLog.outcomes[n] /\ failedBefore(n - 1) /\ pollLog.sleeps = n - 1
        /\ pollLog.result = "false" =>
              /\ n = pollLog.max /\ failedBefore(n)
              /\ pollLog.sleeps = (IF n = 0 THEN 0 ELSE n - 1)
        /\ pollLog.result = "running" =>
              /\ failedBefore(n)
              /\ \A t \in Threads : \A i \in 1..Len(stk[t]) :
                    stk[t][i].fn = "pollForAvailability" =>
                      CASE stk[t][i].pc = "sleep" -> pollLog.sleeps = n /\ n < pollLog.max
                        [] stk[t][i].pc = "attempt" /\ i < Len(stk[t]) -> pollLog.sleeps = n
                        [] OTHER -> TRUE

\* C6 witness: a poll returned true at its second attempt, after one sleep
C6_Witness ==
    /\ pollLog.result = "true"
    /\ pollLog.outcomes = <<FALSE, TRUE>>
    /\ pollLog.sleeps = 1

\* C9: connect never throws. Every failure (authentication, timeout,
\* unexpected close, immediate error) makes it return success = false with the
\* reason, and then no session is registered for the address; it returns
\* success = true only with its client ready and registered.
C9_ConnectNeverThrows ==
    [][\A t \in Threads :
         (Running(t, "connect", "connecting") /\ stk'[t] = Pop(t)) =>
            LET f == Top(t) IN
            /\ ret'[t].kind = "return"
            /\ ret'[t].ok =>
                 /\ MapGet(connections'[f.k], f.ip) = f.c
                 /\ f.c \in DOMAIN clients' /\ clients'[f.c].st = "ready"
            /\ ~ret'[t].ok =>
                 /\ ret'[t].s \in ConnectErrors
                 /\ MapGet(connections'[f.k], f.ip) = 0]_vars

\* C9 witness: a connect to the router has timed out and returned its failure
C9_Witness ==
    /\ Idle
    /\ ret[1].fn = "connect" /\ ret[1].kind = "return" /\ ~ret[1].ok
    /\ ret[1].s = "timed out"
    /\ MapGet(connections["ipc"], Router) = 0

\* transferFile of thread t settles in this step
TransferSettles(t) ==
    /\ Len(stk[t]) > 0 /\ Top(t).fn = "transferFile"
    /\ Len(stk'[t]) = Len(stk[t]) - 1

\* C15: transferFile never throws and returns a boolean.  It returns false when
\* the connection it needs cannot be made, when scp exits with an error, and
\* when scp exits 0 having written standard error with no warning in it; when
\* only the remote `mkdir -p` failed it goes on to the copy; and it returns
\* true only in the step in which scp completed, with the file on the device.
C15_TransferFileIsBoolean ==
    [][\A t \in Threads :
        /\ TransferSettles(t) =>
              /\ ret'[t].fn = "transferFile" /\ ret'[t].kind = "return"
              /\ ret'[t].ok \in BOOLEAN
        /\ (/\ Running(t, "transferFile", "reconnect") /\ Resumed(t) /\ ~ret[t].ok)
              => TransferSettles(t) /\ ~ret'[t].ok
        /\ (/\ Running(t, "transferFile", "scp") /\ TransferSettles(t)
            /\ ret'[t].s = "scp failed" \/ (ret'[t].s # "" /\ ~includesWarning(ret'[t].s)))
              => ~ret'[t].ok
        /\ (/\ Running(t, "transferFile", "mkdir") /\ Resumed(t) /\ ret[t].kind = "throw")
              => Running(t, "transferFile", "scp")'
        /\ (TransferSettles(t) /\ ret'[t].ok)
              => /\ Top(t).pc = "scp"
                 /\ ret'[t].s \in ScpStderr
                 /\ dev'[Top(t).ip].file # "none"]_vars

\* scp exited 0 with an error text on standard error: false is returned although
\* the file is on the device
C15_Witness ==
    /\ Idle /\ ret[1] = Val("transferFile", "return", FALSE, "lost connection")
    /\ dev[Router].file # "none"

\* thread t is inside executeRemoteCommand, which waits at pc for its callee
InRemoteCommand(st, pc) ==
    /\ Len(st) >= 2
    /\ st[Len(st) - 1].fn = "executeRemoteCommand" /\ st[Len(st) - 1].pc = pc

\* C16: executeRemoteCommand runs the command on the session registered for
\* the address; with none registered it connects with the empty password, and
\* when that fails it throws without running the command; it fails only when
\* the connection or the exec fails, never because of what the command wrote,
\* and what it returns is the standard output executeCommand captured.
C16_RemoteCommand ==
    [][\A t \in Threads :
        /\ (InRemoteCommand(stk'[t], "exec") /\ ~InRemoteCommand(stk[t], "exec"))
              => /\ stk'[t][Len(stk'[t])].fn = "executeCommand"
                 /\ stk'[t][Len(stk'[t])].c # 0
                 /\ stk'[t][Len(stk'[t])].c =
                       MapGet(connections'[stk'[t][Len(stk'[t])].k], stk'[t][Len(stk'[t])].ip)
                 /\ stk'[t][Len(stk'[t])].arg = stk'[t][Len(stk'[t]) - 1].arg
        /\ (InRemoteCommand(stk'[t], "reconnect") /\ ~InRemoteCommand(stk[t], "reconnect"))
              => /\ MapGet(connections[stk'[t][Len(stk'[t])].k], stk'[t][Len(stk'[t])].ip) = 0
                 /\ stk'[t][Len(stk'[t])].fn = "connect"
                 /\ stk'[t][Len(stk'[t])].arg = ""
        /\ (/\ Running(t, "executeRemoteCommand", "reconnect") /\ Resumed(t) /\ ~ret[t].ok)
              => /\ Len(stk'[t]) = Len(stk[t]) - 1
                 /\ ret'[t].fn = "executeRemoteCommand" /\ ret'[t].kind = "throw"
                 /\ ret'[t].s # ""
        /\ (Running(t, "executeRemoteCommand", "exec") /\ Resumed(t))
              => /\ Len(stk'[t]) = Len(stk[t]) - 1
                 /\ ret'[t].fn = "executeRemoteCommand"
                 /\ ret'[t].kind = ret[t].kind /\ ret'[t].s = ret[t].s
        /\ (/\ Running(t, "executeCommand", "exec") /\ InRemoteCommand(stk[t], "exec")
            /\ stk'[t] # stk[t] /\ ret'[t].kind = "throw")
              => ret'[t].s \in {"Not connected", "exec failed", "connection closed"}
        /\ (/\ Running(t, "executeCommand", "exec") /\ InRemoteCommand(stk[t], "exec")
            /\ stk'[t] # stk[t] /\ ret'[t].kind = "return" /\ Live(Top(t).c))
              => ret'[t].s = Stdout(Top(t).arg, dev[Top(t).ip])]_vars

\* `ls -l` of a file that is not there wrote to standard error only, on a live
\* session: the call returned the empty standard output
C16_Witness ==
    /\ Idle /\ ret[1] = Val("executeRemoteCommand", "return", TRUE, "")
    /\ Live(MapGet(connections["ipc"], Router))
    /\ dev[Router].file = "none"

\* C19: a quick connection attempt that fails leaves nothing behind: its client
\* has been ended and is registered nowhere, and the registry of its connector
\* is what it was when the attempt began (no session was registered for the
\* address then, and nothing changed the registry while the attempt waited).
C19_FailedAttemptLeavesNoTrace ==
    [][\A t \in Threads :
        Running(t, "quickConnectAttempt", "connecting") =>
            /\ Running(t, "quickConnectAttempt", "connecting")' => connections' = connections
            /\ (Len(stk'[t]) = Len(stk[t]) - 1 /\ ~ret'[t].ok) =>
                  /\ ret'[t].fn = "quickConnectAttempt" /\ ret'[t].kind = "return"
                  /\ Top(t).c \notin DOMAIN clients'
                  /\ \A k \in Connectors : \A a \in DOMAIN connections'[k] :
                        connections'[k][a] # Top(t).c
                  /\ Top(t).n = 0
                  /\ connections' = connections]_vars

\* a failed attempt has just returned to the polling loop, while a session for
\* another address is registered
C19_Witness ==
    /\ Running(1, "pollForAvailability", "attempt") /\ Resumed(1)
    /\ ret[1].fn = "quickConnectAttempt" /\ ~ret[1].ok
    /\ DOMAIN connections["ipc"] # {}
    /\ Top(1).ip \notin DOMAIN connections["ipc"]

\* C25 (as claimed): every client a registry holds has not been ended: once a
\* session has closed, the registry of its connector no longer maps its
\* address to it.
C25_RegistryHoldsOpenClients ==
    \A k \in Connectors : \A a \in DOMAIN connections[k] :
        connections[k][a] \in DOMAIN clients

\* C26 (as claimed): when connect calls on one connector have overlapped and
\* all of them have completed, every client that became ready and has not been
\* ended is the one its connector's registry holds for its address.
C26_NoReadyClientOutsideRegistry ==
    Idle =>
        \A c \in DOMAIN clients :
            clients[c].st = "ready" =>
                MapGet(connections[clients[c].k], clients[c].ip) = c

-----------------------------------------------------------------------------
(* Claims on the upgrade orchestrator *)

\* the install call has settled
Installed == Idle /\ ret[1].fn = "install"

\* what the board query of the router yields is absent, has no OpenWrt
\* distribution marker, or has an empty board name
BadBoardInfo == dev[Router].board \in {"nodistro", "noboard", "nojson"}

\* C2 (as claimed): the device rejects the empty password and accepts "p", the
\* caller connected with "p" through the connect handler, the board is
\* OpenWrt with a board name, the release is valid and none of the download,
\* transfer, remote-file check, firmware-apply, reboot-wait and version-marker
\* steps fails: then install returns {success: true, step: 'complete', progress: 100}.
C2_EndToEndWithPassword ==
    ( /\ Installed
      /\ instLog.pw0 = "p" /\ instLog.ipcLive
      /\ dev[Router].board = "openwrt"
      /\ instLog.release = "valid"
      /\ instLog.failed \cap {"downloading", "transferring", "verifying", "installing",
                              "waiting-for-reboot", "verifying-installation"} = {} )
    => ret[1].kind = "return" /\ ret[1].ok /\ ret[1].step = "complete" /\ ret[1].progress = 100

\* C3: a connection-closed error thrown by the firmware-apply command in the
\* 'installing' stage is no terminal failure: the run enters
\* 'waiting-for-reboot' and calls pollForAvailability.
C3_ApplyDisconnectIsBenign ==
    instLog.applyThrew = "connection closed" =>
        /\ instLog.stages[Len(instLog.stages)] \in {"waiting-for-reboot", "verifying-installation"}
        /\ "installing" \notin instLog.failed
        /\ \/ Running(1, "install", "waiting-for-reboot")
           \/ instLog.polls = 1
        /\ Installed => ret[1].step \in {"waiting-for-reboot", "verifying-installation", "complete"}

\* C3 witness: the apply command threw connection-closed and the run is polling
C3_Witness ==
    /\ instLog.applyThrew = "connection closed"
    /\ Len(stk[1]) >= 2 /\ stk[1][1].pc = "poll" /\ stk[1][2].fn = "pollForAvailability"
    /\ instLog.polls = 1

\* C4 (as claimed): for every release data passed to install, when the board
\* information is absent, lacks the OpenWrt marker or has an empty board name,
\* install returns {success: false, step: 'compatibility-check', progress: 0}
\* and neither downloads, transfers nor applies firmware.
C4_CompatibilityGate ==
    (Installed /\ BadBoardInfo) =>
        /\ ret[1].kind = "return" /\ ~ret[1].ok
        /\ ret[1].step = "compatibility-check" /\ ret[1].progress = 0
        /\ instLog.downloads = 0 /\ instLog.transfers = 0
        /\ \A i \in 1..Len(instLog.cmds) : instLog.cmds[i] # CmdSysupgrade

\* C10 (as claimed): install never lets a fault escape: whatever the input and
\* whatever fails, the call completes with an InstallStatus.
C10_NothingEscapes ==
    Installed => ret[1].kind = "return"

\* the stages of one install run, in the order of the pipeline
Stages ==
    <<"preparing", "compatibility-check", "download-preparation", "downloading",
      "transferring", "verifying", "installing", "waiting-for-reboot",
      "verifying-installation", "complete">>

\* C11: during one install run the stages are entered only in the order of the
\* pipeline: the stages entered so far are always an initial part of Stages
\* (none twice, none skipped, none after a later one), and one step of the run
\* enters stages only at the end of that list; attempts of the reboot poll
\* repeat inside 'waiting-for-reboot' without entering it again.
C11_StagesInOrder ==
    /\ Len(instLog.entered) <= Len(Stages)
    /\ instLog.entered = SubSeq(Stages, 1, Len(instLog.entered))
    /\ (Installed /\ ret[1].kind = "return" /\ ret[1].step = "complete")
          => instLog.entered = Stages
    /\ (Installed /\ ret[1].kind = "return" /\ ~ret[1].ok)
          => ret[1].step = instLog.entered[Len(instLog.entered)]

\* a run that reached 'complete' after more than one attempt of the reboot poll
C11_Witness ==
    /\ Installed /\ ret[1].kind = "return" /\ ret[1].step = "complete"
    /\ instLog.entered = Stages
    /\ instLog.polls = 1 /\ Len(pollLog.outcomes) >= 2

\* the primitive of stage `step` has just settled with a failure, and the
\* continuation of install is about to see it
PrimitiveFailed(step) ==
    /\ Len(stk[1]) = 1 /\ Top(1).fn = "install" /\ Resumed(1)
    /\ CASE step = "downloading" -> Top(1).pc = "download" /\ ret[1].kind = "throw"
         [] step = "transferring" -> Top(1).pc = "transfer" /\ ~ret[1].ok
         [] step = "waiting-for-reboot" -> Top(1).pc = "poll" /\ ~ret[1].ok
         [] step = "verifying-installation" ->
                /\ Top(1).pc = "version"
                /\ ret[1].kind = "throw" \/ ret[1].s = "Not TollGate OS"

\* how many times the primitive of `step` was started in the run logged in log
Started(log, step) ==
    CASE step = "downloading" -> log.downloads
      [] step = "transferring" -> log.transfers
      [] step = "verifying" -> Cardinality({i \in 1..Len(log.cmds) : log.cmds[i] = CmdLs})
      [] step = "installing" -> Cardinality({i \in 1..Len(log.cmds) : log.cmds[i] = CmdSysupgrade})
      [] step = "waiting-for-reboot" -> log.polls
      [] step = "verifying-installation" ->
             Cardinality({i \in 1..Len(log.cmds) : log.cmds[i] = CmdVersion})

\* the place of a stage in the pipeline
StageNo(step) == CHOOSE i \in 1..Len(Stages) : Stages[i] = step

\* C12: when the primitive of a stage S in {downloading, transferring,
\* waiting-for-reboot, verifying-installation} fails, the next step of install
\* returns {success: false, step: S} with a non-empty error; the primitive of S
\* was started once, and no primitive of a later stage was started.
C12_FailedStageEndsRun ==
    [][\A step \in {"downloading", "transferring", "waiting-for-reboot",
                    "verifying-installation"} :
          PrimitiveFailed(step) =>
              /\ Idle'
              /\ ret'[1].fn = "install" /\ ret'[1].kind = "return"
              /\ ~ret'[1].ok /\ ret'[1].step = step /\ ret'[1].s # ""
              /\ Started(instLog', step) = 1
              /\ \A later \in {"downloading", "transferring", "verifying", "installing",
                                "waiting-for-reboot", "verifying-installation"} :
                     StageNo(later) > StageNo(step) => Started(instLog', later) = 0]_vars

\* a run given up in 'waiting-for-reboot' after the whole budget of attempts
C12_Witness ==
    /\ Installed /\ ret[1].kind = "return" /\ ret[1].step = "waiting-for-reboot"
    /\ ~ret[1].ok /\ Len(pollLog.outcomes) = InstallPollAttempts
    /\ Started(instLog, "waiting-for-reboot") = 1

\* C13 (as claimed): when the listing of /tmp/firmware-update.bin settles in
\* the 'verifying' stage and the file is not on the device, install returns
\* {success: false, step: 'verifying'} in its next step, so that the
\* firmware-apply command is never sent.
C13_MissingFileStopsRun ==
    [][(/\ Running(1, "install", "verify") /\ Resumed(1)
        /\ dev[Router].file = "none")
          => /\ Idle'
             /\ ret'[1].fn = "install" /\ ret'[1].kind = "return"
             /\ ~ret'[1].ok /\ ret'[1].step = "verifying"]_vars

\* C14: every result install returns carries a stage name and a progress in
\* 0..100, with success = true exactly when step = 'complete' and exactly when
\* progress = 100, and a failure carries a non-empty error.
C14_ResultShape ==
    (Installed /\ ret[1].kind = "return") =>
        /\ ret[1].step # ""
        /\ ret[1].progress \in 0..100
        /\ ret[1].ok <=> ret[1].step = "complete"
        /\ ret[1].ok <=> ret[1].progress = 100
        /\ ~ret[1].ok => ret[1].s # ""

\* a failure reported at the last stage before 'complete'
C14_Witness ==
    /\ Installed /\ ret[1].kind = "return"
    /\ ~ret[1].ok /\ ret[1].step = "verifying-installation" /\ ret[1].progress = 95

\* C18 (as claimed): once the before-quit handler has run, no SSH session that
\* any component of the application opened is still open.
C18_NoSessionSurvivesQuit ==
    [][before_quit(1) => \A c \in DOMAIN clients' : clients'[c].st # "ready"]_vars

\* the install run of thread 1 comes to pc in this step
Enters(pc) == Running(1, "install", pc)' /\ ~Running(1, "install", pc)

\* C22: in one install run the firmware-apply command is sent at most once, and
\* only after, in this order, the compatibility check passed and a firmware URL
\* was found, the download completed, transferFile returned true and the
\* listing of the remote file raised no error.
C22_ApplyOnceAfterAllChecks ==
    [][/\ Started(instLog', "installing") <= 1
       /\ Started(instLog', "installing") > Started(instLog, "installing")
            => /\ Running(1, "install", "installing")
               /\ Started(instLog, "downloading") = 1 /\ Started(instLog, "transferring") = 1
               /\ instLog.cmds = <<CmdLs>>
               /\ SubSeq(Stages, 1, 7) = instLog.entered
       /\ Enters("installing")
            => Running(1, "install", "verify") /\ Resumed(1) /\ ret[1].kind = "return"
       /\ Enters("verifying")
            => Running(1, "install", "transfer") /\ Resumed(1) /\ ret[1].ok
       /\ Enters("transferring")
            => Running(1, "install", "download") /\ Resumed(1) /\ ret[1].kind = "return"
       /\ Enters("downloading")
            => /\ Running(1, "install", "routerInfo") /\ Resumed(1) /\ ret[1].ok
               /\ toLowerCase(JSONparse(ret[1].s).distribution) = "openwrt"
               /\ JSONparse(ret[1].s).board_name # ""
               /\ firmwareUrl(Top(1).arg) # ""]_vars

\* a run that sent the firmware-apply command once and then gave up waiting
C22_Witness ==
    /\ Installed /\ ret[1].kind = "return" /\ ret[1].step = "waiting-for-reboot"
    /\ Started(instLog, "installing") = 1
    /\ instLog.cmds = <<CmdLs, CmdSysupgrade>>

\* C24 (as claimed): when the caller invokes installTollgate(address,
\* descriptor) through the exposed IPC interface, install is called with that
\* address and that descriptor.
C24_BothArgumentsDelivered ==
    instLog.sent # "" => instLog.release = instLog.sent

\* C27 (as claimed): across the connectors of the application, at most one
\* live session to an address is open at any time.
C27_OneLiveSessionPerAddressOverall ==
    \A ip \in DOMAIN dev :
        Cardinality({c \in DOMAIN clients : Live(c) /\ clients[c].ip = ip}) <= 1

\* C28 (as claimed): when install reads the version marker, the device has
\* gone down since the firmware-apply command was sent: the poll has not
\* answered on the strength of a connection to the device before its reboot.
C28_VersionReadAfterReboot ==
    Started(instLog, "verifying-installation") >= 1 => instLog.wentDown

\* C29: install never returns a result with step 'installing': whatever error
\* the firmware-apply command raises (connection closed, exec error, or no
\* session could be established so the command was never sent), the run goes
\* on to 'waiting-for-reboot'.
C29_ApplyErrorsSwallowed ==
    [][ /\ (ret'[1].fn = "install" => ret'[1].step # "installing")
        /\ (Running(1, "install", "sysupgrade") /\ Resumed(1) /\ ret[1].kind = "throw"
              /\ stk'[1] # stk[1])
            => /\ Running(1, "install", "waiting-for-reboot")'
               /\ instLog'.stages = Append(instLog.stages, "waiting-for-reboot")
               /\ "installing" \notin instLog'.failed ]_vars

\* C29 witness: there was no session to send the firmware-apply command on
\* (the command was never sent) and the run is in 'waiting-for-reboot'
C29_Witness ==
    /\ instLog.applyThrew = "Not connected"
    /\ ~dev[Router].pending
    /\ Running(1, "install", "waiting-for-reboot")

-----------------------------------------------------------------------------
(* Claims on the network scanner *)

\* the addresses the configured ranges make the sweep visit
ConfiguredAddrs ==
    UNION {{expandSubnet(cfg.ranges[r])[i] : i \in 1..Len(expandSubnet(cfg.ranges[r]))} :
             r \in 1..Len(cfg.ranges)}

\* C5: when a scan over the configured address set returns, its result has
\* exactly one entry, with sshOpen = true, for every address of the set whose
\* port 22 accepts a connection, and no other entry: K reachable addresses
\* give K entries, whatever failed on the other addresses.
C5_OneEntryPerReachableAddress ==
    scanLog.returned =>
        LET reach == {a \in ConfiguredAddrs : ~Closed22(a)}
            res   == scanLog.results
        IN  /\ Len(res) = Cardinality(reach)
            /\ {res[i].ip : i \in 1..Len(res)} = reach
            /\ \A i \in 1..Len(res) : res[i].sshOpen

\* the network address of the block a.b.c.d/m, 16 <= m <= 30: the host bits cleared
NetworkAddress(addr, m) ==
    LET low == addr[3] * 256 + addr[4]
        net == low - (low % (2 ^ (32 - m)))
    IN  <<addr[1], addr[2], net \div 256, net % 256>>

\* the broadcast address of the block: the host bits set
BroadcastAddress(addr, m) ==
    LET low == addr[3] * 256 + addr[4]
        top == low - (low % (2 ^ (32 - m))) + 2 ^ (32 - m) - 1
    IN  <<addr[1], addr[2], top \div 256, top % 256>>

\* C7: for every range a.b.c.d/m with 16 <= m <= 30, expandSubnet returns
\* exactly 2^(32-m) - 2 addresses, and neither the network address nor the
\* broadcast address of the range is one of them.
C7_HostAddressesOfRange ==
    LET rg  == cfg.ranges[1]
        ips == scanLog.ips
    IN  \A m \in 16..30 :
          scanLog.expanded /\ rg.maskStr = Dec(m) =>
            /\ Len(ips) = 2 ^ (32 - m) - 2
            /\ \A i \in 1..Len(ips) :
                 ips[i] \notin {NetworkAddress(rg.subnet, m), BroadcastAddress(rg.subnet, m)}

\* C23 (as claimed): for a range a.b.c.d/m with 16 <= m <= 30, aligned to its
\* mask or not, the addresses expandSubnet enumerates are exactly the host
\* addresses of the block of a.b.c.d/m: each lies inside the block, none is the
\* network or the broadcast address of the block, and none of the block's
\* hosts is left out.
C23_ExactlyTheHostsOfTheBlock ==
    LET rg  == cfg.ranges[1]
        ips == scanLog.ips
    IN  \A m \in 16..30 :
          scanLog.expanded /\ rg.maskStr = Dec(m) =>
            /\ \A i \in 1..Len(ips) :
                 /\ NetworkAddress(ips[i], m) = NetworkAddress(rg.subnet, m)
                 /\ ips[i] # NetworkAddress(rg.subnet, m)
                 /\ ips[i] # BroadcastAddress(rg.subnet, m)
            /\ Cardinality({ips[i] : i \in 1..Len(ips)}) = 2 ^ (32 - m) - 2

\* a mask that is missing, not a number, below 16 or above 30
InvalidMask(maskStr) ==
    ~ \E m \in 16..30 : parseInt(maskStr) = [nan |-> FALSE, val |-> m]

\* C8: a configured range with an invalid mask is rejected before any network
\* activity: when it is rejected the scan has made no TCP probe and no SSH
\* connection, and a scan that returns has rejected every such range.
C8_RejectedBeforeNetworkActivity ==
    /\ \A rej \in scanLog.rejected : rej.probes = 0 /\ rej.enriched = 0
    /\ scanLog.returned =>
         \A r \in 1..Len(cfg.ranges) :
            InvalidMask(cfg.ranges[r].maskStr) => \E rej \in scanLog.rejected : rej.range = r

\* the enrichment of address ip fails: the login with the empty password is
\* refused, or the board query prints nothing that parses
EnrichmentFails(ip) ==
    dev[ip].pw # "" \/ JSONparse(Stdout(CmdBoard, dev[ip])).throws

\* C17 (as claimed): when a scan has returned, every address it found with
\* port 22 open and whose enrichment failed is in the result, and its entry has
\* meta.status = 'ready' and isOpenwrt = false.
C17_UnenrichedListedAsReady ==
    scanLog.returned =>
        \A i \in 1..Len(scanLog.enriched) :
            EnrichmentFails(scanLog.enriched[i]) =>
                /\ \E j \in 1..Len(scanLog.results) :
                      scanLog.results[j].ip = scanLog.enriched[i]
                /\ \A j \in 1..Len(scanLog.results) :
                      scanLog.results[j].ip = scanLog.enriched[i] =>
                          /\ scanLog.results[j].sshOpen
                          /\ scanLog.results[j].status = "ready"
                          /\ scanLog.results[j].isOpenwrt = "false"

\* C21 (as claimed): checkDevice(address) never throws to its caller; it
\* returns one scan result when port 22 of the address is reachable and null
\* when it is not.
C21_CheckDeviceOneResultOrNull ==
    \A t \in Threads :
        ret[t].fn = "check-device" =>
            /\ ret[t].kind = "return"
            /\ ret[t].ok <=> ~Closed22(ret[t].step)

-----------------------------------------------------------------------------
(* Claims on the release utilities *)

\* the value of the device-compatibility tag of the release, or Undefined
CompatTagValue == getMatchingTags(cfg.release, compatibilityTag(cfg.build))

\* C20 (as claimed): isReleaseCompatible returns true exactly when the board
\* name is there and not empty, the release carries a device-compatibility tag,
\* and the tag, in lower case, occurs in the board name, in lower case.
C20_CompatibleIffTagInBoardName ==
    ret[1].fn = "isReleaseCompatible" =>
        (ret[1].ok <=>
            /\ ~Falsy(cfg.boardName)
            /\ ~Falsy(CompatTagValue)
            /\ includes(toLowerCaseChars(cfg.boardName), toLowerCaseChars(CompatTagValue)))

====
